---- MODULE Spec2Model ----
(***************************************************************************)
(* A model of the resilient routing core of logsv/llmrouter:               *)
(*   LLMRouter        (src/src/core/router.ts)                              *)
(*   ResilientRouter  (src/src/router-with-resilience.ts)                   *)
(*   the policy built by makeResiliencePolicy (src/src/policies.ts), i.e.   *)
(*   cockatiel's wrap(retry, circuitBreaker), and the per-provider          *)
(*   Bottleneck limiter the router schedules handler invocations on.        *)
(*                                                                         *)
(* Each client runs execute() calls one after the other; different clients *)
(* overlap.  A step of the model is one run-to-completion segment of the   *)
(* JavaScript code: from one `await` to the next.                          *)
(***************************************************************************)
EXTENDS Integers, Sequences, FiniteSets, TLC

Providers == {"A", "B"}
Clients == {"c1", "c2"}

\* Bounds of the model (not program constants).
MaxExecSeq == 4   \* execute() calls a lone client issues in one behaviour
MaxExecConc == 2  \* execute() calls two overlapping clients issue in one behaviour
MaxExecTrial == 3 \* execute() calls two overlapping clients issue around a third call
MaxInvoke == 6    \* handler invocations in one behaviour
MaxClock == 2     \* largest Date.now() reading

\* circuitBreakerOpenedAt: undefined
Undefined == -1
\* Bottleneck maxConcurrent default: rateLimit?.maxConcurrent || 10
DefaultMaxConcurrent == 10
\* Bottleneck minTime default: 100 ms, one unit of the clock
DefaultMinTime == 1
\* the cost of a provider without models; above every cost configured here
Infinity == 1000

VARIABLES
    cfg,      \* the RouterConfig and the requests the clients may issue (immutable)
    clock,    \* Date.now()
    prov,     \* LLMRouter.providers: name -> ProviderWrapper
    queue,    \* per provider: the limiter's queue of QUEUED jobs (clients), FIFO
    nextRequest, \* per provider: the limiter's earliest time of the next launch
    policy,   \* the cockatiel circuit breaker inside ResilientRouter.policy
    call,     \* per client: the frame of its current execute() call
    hist      \* history: counts over the whole behaviour

vars == <<cfg, clock, prov, queue, nextRequest, policy, call, hist>>

----------------------------------------------------------------------------
(* Configurations *)

NoRetry == [enabled |-> FALSE, attempts |-> 1]
NoBreaker == [enabled |-> FALSE, threshold |-> 1, resetTimeoutMs |-> 1]
Retry(n) == [enabled |-> TRUE, attempts |-> n]
Breaker(t, r) == [enabled |-> TRUE, threshold |-> t, resetTimeoutMs |-> r]

\* The handler and the type of a provider entry (LLMProviderConfig).
Entry(handler, type) == [handler |-> handler, type |-> type]

\* Every provider has a custom handler.
AllHandlers == [p \in Providers |-> Entry(TRUE, "custom")]
\* No custom handlers: A is of a type without built-in integration, B is openai.
BuiltinB == [p \in Providers |->
                IF p = "A" THEN Entry(FALSE, "anthropic") ELSE Entry(FALSE, "openai")]
\* A has a custom handler (whatever its type), B is ollama without handler.
HandlerA == [p \in Providers |->
                IF p = "A" THEN Entry(TRUE, "anthropic") ELSE Entry(FALSE, "ollama")]

\* The rateLimit section of a provider, in the terms the router reads it:
\*   tokensPerSecond set?  (checkRateLimit looks at the limiter only if so)
\*   maxConcurrent         (rateLimit?.maxConcurrent || 10)
\*   minTime               (minTimeMs ? 1000 / (tokensPerSecond || 1) : 100,
\*                          in clock units of 100 ms, rounded down)
\* No rateLimit section: the limiter defaults.
LimiterDefault == [tokensPerSecond |-> FALSE, maxConcurrent |-> DefaultMaxConcurrent,
                   minTime |-> DefaultMinTime]
\* rateLimit: {minTimeMs: 1, tokensPerSecond: 10000}: launches 0.1 ms apart.
LimiterFast == [tokensPerSecond |-> TRUE, maxConcurrent |-> DefaultMaxConcurrent,
                minTime |-> 0]
\* rateLimit: {minTimeMs: 1, tokensPerSecond: 10000, maxConcurrent: 1}
LimiterFastOne == [tokensPerSecond |-> TRUE, maxConcurrent |-> 1, minTime |-> 0]

\* A ModelConfig: its name and its two costs per 1k tokens, in units of 0.001.
Model(name, input, output) ==
    [name |-> name, costPer1kInputTokens |-> input, costPer1kOutputTokens |-> output]

\* One provider A serving m1.
ModelsSingle == [p \in Providers |-> IF p = "A" THEN <<Model("m1", 1, 1)>> ELSE <<>>]
\* A and B both serve m1.
ModelsShared == [p \in Providers |-> <<Model("m1", 1, 1)>>]
\* A serves m1, B serves m2.
ModelsSplit == [p \in Providers |->
                   IF p = "A" THEN <<Model("m1", 1, 1)>> ELSE <<Model("m2", 1, 1)>>]
\* A and B both serve m1 only, A at ten times B's cost (A is listed first).
ModelsCheapB == [p \in Providers |->
                    IF p = "A" THEN <<Model("m1", 10, 30)>> ELSE <<Model("m1", 1, 2)>>]
\* A and B both serve m1, B for less; A lists a cheap m2 ahead of m1.
ModelsListed == [p \in Providers |->
                    IF p = "A" THEN <<Model("m2", 1, 1), Model("m1", 10, 30)>>
                    ELSE <<Model("m1", 1, 2)>>]

\* A serves m1, B serves m1 and m2; nobody serves m3.
ModelsOverlap == [p \in Providers |->
                     IF p = "A" THEN <<Model("m1", 1, 1)>>
                     ELSE <<Model("m1", 1, 1), Model("m2", 1, 1)>>]

\* priority of LoadedProviderConfig: providerConfig.priority ?? 1
SamePriority == [p \in Providers |-> 1]
\* the cheaper provider B has the better (lower) priority number
PriorityB == [p \in Providers |-> IF p = "A" THEN 2 ELSE 1]

Config(flavor, clients, provs, models, kind, limits, retry, cb, reqModels, prefs) ==
    [flavor |-> flavor,
     clients |-> clients,
     execs |-> IF Cardinality(clients) = 1 THEN MaxExecSeq ELSE MaxExecConc,
     strategy |-> "round_robin",
     defaultModel |-> "",
     provs |-> provs,
     models |-> models,
     priority |-> SamePriority,
     enabled |-> [p \in Providers |-> TRUE],
     handler |-> [p \in Providers |-> kind[p].handler],
     type |-> [p \in Providers |-> kind[p].type],
     rateLimit |-> [p \in Providers |-> limits[p].tokensPerSecond],
     maxConcurrent |-> [p \in Providers |-> limits[p].maxConcurrent],
     minTime |-> [p \in Providers |-> limits[p].minTime],
     retry |-> retry,
     circuitBreaker |-> cb,
     reqModels |-> reqModels,
     prefs |-> prefs]

\* The same configuration under cost_priority_round_robin.
CostPriority(config, priority) ==
    [config EXCEPT !.strategy = "cost_priority_round_robin", !.priority = priority]

\* The same configuration with the providers of `off` declared enabled: false.
Disabled(config, off) ==
    [config EXCEPT !.enabled = [p \in Providers |-> p \notin off]]

\* The same configuration with n execute() calls issued in all.
Calls(config, n) == [config EXCEPT !.execs = n]

\* The same configuration with defaultModel set.
DefaultModel(config, model) == [config EXCEPT !.defaultModel = model]

RetryChoices == {NoRetry, Retry(0), Retry(1), Retry(2)}
BreakerChoices == {NoBreaker, Breaker(1, 1), Breaker(2, 1)}

AllDefault == [p \in Providers |-> LimiterDefault]
AllFast == [p \in Providers |-> LimiterFast]
\* A admits one job at a time, B has the default concurrency.
OneAtATimeA == [p \in Providers |-> IF p = "A" THEN LimiterFastOne ELSE LimiterFast]

\* ResilientRouter, one client, one provider, every retry/breaker combination.
ScenariosSingle ==
    {Config("ResilientRouter", {"c1"}, <<"A">>, ModelsSingle, AllHandlers, AllFast,
            r, b, {"m1"}, {<<>>}) :
        r \in RetryChoices, b \in BreakerChoices}

\* ResilientRouter, one client, two providers sharing a model, default limiters.
ScenariosShared ==
    {Config("ResilientRouter", {"c1"}, <<"A", "B">>, ModelsShared, AllHandlers,
            AllDefault, NoRetry, b, {"m1"}, {<<>>}) :
        b \in {NoBreaker, Breaker(2, 1)}}

\* ResilientRouter, one client, two providers serving different models.
ScenariosSplit ==
    {Config("ResilientRouter", {"c1"}, <<"A", "B">>, ModelsSplit, AllHandlers,
            AllFast, NoRetry, b, {"m1", "m2"}, {<<>>}) :
        b \in {Breaker(1, 1), Breaker(2, 1)}}

\* ResilientRouter, two overlapping clients, two providers sharing a model,
\* A admitting one job at a time.
ScenariosConcurrent ==
    {Config("ResilientRouter", Clients, <<"A", "B">>, ModelsShared, AllHandlers,
            OneAtATimeA, r, b, {"m1"}, {<<>>}) :
        r \in {NoRetry, Retry(1)}, b \in {NoBreaker, Breaker(1, 1)}}

\* ResilientRouter, two overlapping clients, one provider admitting one job
\* at a time.
ScenariosSaturated ==
    {Config("ResilientRouter", Clients, <<"A">>, ModelsSingle, AllHandlers,
            OneAtATimeA, r, NoBreaker, {"m1"}, {<<>>}) :
        r \in {NoRetry, Retry(1)}}

\* Either router, one client, cost_priority_round_robin over two providers
\* that serve m1, B for less.
ScenariosCost ==
    {CostPriority(Config(f, {"c1"}, <<"A", "B">>, m, AllHandlers, AllFast,
                         NoRetry, b, {"m1"}, {<<>>}), pr) :
        f \in {"LLMRouter", "ResilientRouter"}, m \in {ModelsCheapB, ModelsListed},
        pr \in {SamePriority, PriorityB}, b \in {NoBreaker, Breaker(1, 1)}}

\* LLMRouter, one client, one provider, breaker enabled.
ScenariosBaseBreaker ==
    {Config("LLMRouter", {"c1"}, <<"A">>, ModelsSingle, AllHandlers, AllFast,
            NoRetry, b, {"m1"}, {<<>>}) :
        b \in {Breaker(1, 1), Breaker(2, 1)}}

\* LLMRouter, two overlapping clients that may name A as preferred provider,
\* A admitting one job at a time; with and without a second provider.
\* And two overlapping clients on one provider that runs their jobs side by
\* side, breaker enabled.
ScenariosBaseConcurrent ==
    {Config("LLMRouter", Clients, <<"A">>, ModelsSingle, AllHandlers, OneAtATimeA,
            NoRetry, NoBreaker, {"m1"}, {<<>>, <<"A">>}),
     Config("LLMRouter", Clients, <<"A", "B">>, ModelsShared, AllHandlers, OneAtATimeA,
            NoRetry, NoBreaker, {"m1"}, {<<>>, <<"A">>}),
     Config("LLMRouter", Clients, <<"A">>, ModelsSingle, AllHandlers, AllFast,
            NoRetry, Breaker(2, 1), {"m1"}, {<<>>})}

\* Either router, one client naming a preferred provider, A serving m1 and
\* B serving m1 and m2.
ScenariosPreferred ==
    {Config(f, {"c1"}, <<"A", "B">>, ModelsOverlap, AllHandlers, AllFast, NoRetry, b,
            {"m1", "m2"}, {<<"A">>, <<"B">>}) :
        f \in {"LLMRouter", "ResilientRouter"}, b \in {NoBreaker, Breaker(1, 1)}}

\* Either router, one client, A serving m1 and the disabled B serving m1 and
\* m2; requests may leave out the model and name B as preferred provider.
ScenariosUnroutable ==
    {Disabled(DefaultModel(Config(f, {"c1"}, <<"A", "B">>, ModelsOverlap, AllHandlers,
                                  AllFast, NoRetry, Breaker(1, 1), {"", "m1", "m2"},
                                  {<<>>, <<"B">>}), d), {"B"}) :
        f \in {"LLMRouter", "ResilientRouter"}, d \in {"", "m1"}}

\* Either router, one client, two providers sharing a model, not all of them
\* with a custom handler.
ScenariosIntegration ==
    {Config(f, {"c1"}, <<"A", "B">>, ModelsShared, k, AllFast, NoRetry, b,
            {"m1"}, {<<>>}) :
        f \in {"LLMRouter", "ResilientRouter"}, k \in {BuiltinB, HandlerA},
        b \in {NoBreaker, Breaker(1, 1)}}

\* LLMRouter, two overlapping clients and providers that run their jobs side
\* by side: one provider whose breaker trips at the first failure, and two
\* providers without breaker.
ScenariosTrial ==
    {Calls(Config("LLMRouter", Clients, <<"A">>, ModelsSingle, AllHandlers, AllFast,
                  NoRetry, Breaker(1, 1), {"m1"}, {<<>>}), MaxExecTrial),
     Calls(Config("LLMRouter", Clients, <<"A", "B">>, ModelsShared, AllHandlers, AllFast,
                  NoRetry, NoBreaker, {"m1"}, {<<>>}), MaxExecTrial)}

Scenarios == ScenariosSingle \cup ScenariosShared \cup ScenariosSplit
                \cup ScenariosConcurrent \cup ScenariosSaturated
                \cup ScenariosCost \cup ScenariosBaseBreaker
                \cup ScenariosBaseConcurrent
                \cup ScenariosPreferred \cup ScenariosUnroutable
                \cup ScenariosIntegration \cup ScenariosTrial

----------------------------------------------------------------------------
(* State after construction *)

NewWrapper ==
    [lastUsed |-> 0,
     failureCount |-> 0,
     successCount |-> 0,
     circuitBreakerState |-> "closed",
     circuitBreakerOpenedAt |-> Undefined,
     totalRequests |-> 0,
     successfulRequests |-> 0,
     failedRequests |-> 0,
     rateLimitedRequests |-> 0,
     circuitBreakerTrips |-> 0,
     lastRequestTime |-> 0,
     averageResponseTime |-> <<0, 1>>]

\* No failed invocation to remember.
NoFailure == [provider |-> "", cands |-> {}, seen |-> 0]

IdleCall ==
    [pc |-> "idle", after |-> NoFailure,
     reqModel |-> "", model |-> "", pref |-> <<>>, avail |-> <<>>,
     pass |-> 0, ordered |-> <<>>, idx |-> 0, hasCap |-> FALSE, gateState |-> "",
     seen |-> 0,
     provider |-> "",
     retryAttempts |-> 0, startTime |-> 0,
     retries |-> 0, ran |-> FALSE, isTest |-> FALSE,
     status |-> "none", err |-> "", errInv |-> 0, resp |-> "",
     hcalls |-> 0, hfail |-> 0, used |-> {}, invoked |-> "", rounds |-> 0,
     cbUpd |-> 0, metUpd |-> 0, skips |-> {}, noneAdmissible |-> FALSE,
     limited |-> [p \in Providers |-> 0]]

NewPolicy == [state |-> "closed", count |-> 0, openedAt |-> Undefined]

NewHist ==
    [execs |-> 0, invokes |-> 0, overlapped |-> FALSE, failed |-> NoFailure,
     selCount |-> [p \in Providers |-> 0],
     hok |-> [p \in Providers |-> 0],
     hfail |-> [p \in Providers |-> 0],
     rejected |-> 0,
     skipped |-> FALSE]

InitWith(S) ==
    /\ cfg \in S
    /\ clock = 1
    /\ prov = [p \in Providers |-> NewWrapper]
    /\ queue = [p \in Providers |-> <<>>]
    /\ nextRequest = [p \in Providers |-> 0]
    /\ policy = NewPolicy
    /\ call = [c \in Clients |-> IdleCall]
    /\ hist = NewHist

Init == InitWith(Scenarios)

----------------------------------------------------------------------------
(* Helpers *)

Range(s) == {s[i] : i \in 1..Len(s)}

Min(S) == CHOOSE x \in S : \A y \in S : x <= y

RECURSIVE Gcd(_, _)
Gcd(a, b) == IF b = 0 THEN a ELSE Gcd(b, a % b)

\* A non-negative rational <<num, den>> in lowest terms.
Rat(n, d) == LET g == Gcd(n, d) IN IF n = 0 THEN <<0, 1>> ELSE <<n \div g, d \div g>>

----------------------------------------------------------------------------
(* LLMRouter: the provider records *)

\* A limiter that loses track of the jobs it is executing.
CountsWithoutExecuting(p) ==
    [RECEIVED |-> Cardinality({c \in Clients : call[c].pc = "received" /\ call[c].provider = p}),
     QUEUED |-> Len(queue[p]),
     EXECUTING |-> 0]

\* counts() of provider p's limiter: jobs by status.
LimiterCounts(p) ==
    [RECEIVED |-> Cardinality({c \in Clients : call[c].pc = "received" /\ call[c].provider = p}),
     QUEUED |-> Len(queue[p]),
     EXECUTING |-> Cardinality({c \in Clients : call[c].pc = "executing" /\ call[c].provider = p})]

\* A gate that lets the trial through only after more than resetTimeoutMs.
GateOpenAtTimeout(pv, p) ==
    LET resilience == cfg.circuitBreaker
        w == pv[p]
        openedAt == IF w.circuitBreakerOpenedAt = Undefined THEN 0 ELSE w.circuitBreakerOpenedAt
        timeSinceOpened == clock - openedAt
    IN  IF ~resilience.enabled THEN [open |-> FALSE, pv |-> pv]
        ELSE IF w.circuitBreakerState = "open"
             THEN IF timeSinceOpened > resilience.resetTimeoutMs
                  THEN [open |-> FALSE,
                        pv |-> [pv EXCEPT ![p].circuitBreakerState = "half-open"]]
                  ELSE [open |-> TRUE, pv |-> pv]
             ELSE [open |-> FALSE, pv |-> pv]

\* isCircuitBreakerOpen: the answer, and the provider map after the call.
isCircuitBreakerOpen(pv, p) ==
    LET resilience == cfg.circuitBreaker
        w == pv[p]
        openedAt == IF w.circuitBreakerOpenedAt = Undefined THEN 0 ELSE w.circuitBreakerOpenedAt
        timeSinceOpened == clock - openedAt
    IN  IF ~resilience.enabled THEN [open |-> FALSE, pv |-> pv]
        ELSE IF w.circuitBreakerState = "open"
             THEN IF timeSinceOpened >= resilience.resetTimeoutMs
                  THEN [open |-> FALSE,
                        pv |-> [pv EXCEPT ![p].circuitBreakerState = "half-open"]]
                  ELSE [open |-> TRUE, pv |-> pv]
             ELSE [open |-> FALSE, pv |-> pv]

\* An updateCircuitBreakerState that opens the circuit again when the
\* half-open trial fails.
FailedTrialReopens(pv, p, success) ==
    LET resilience == cfg.circuitBreaker
        w == pv[p]
    IN  IF ~resilience.enabled THEN pv
        ELSE IF success
             THEN [pv EXCEPT ![p].circuitBreakerState =
                                 IF @ = "half-open" THEN "closed" ELSE @,
                             ![p].successCount = @ + 1]
             ELSE LET recentFailures == w.failureCount + 1 IN
                  IF recentFailures >= resilience.threshold
                     /\ w.circuitBreakerState \in {"closed", "half-open"}
                  THEN [pv EXCEPT ![p].failureCount = recentFailures,
                                  ![p].circuitBreakerState = "open",
                                  ![p].circuitBreakerOpenedAt = clock,
                                  ![p].circuitBreakerTrips = @ + 1]
                  ELSE [pv EXCEPT ![p].failureCount = recentFailures]

\* An updateCircuitBreakerState that starts the failure count anew when a
\* successful trial closes the breaker.
ClosingResetsFailures(pv, p, success) ==
    LET resilience == cfg.circuitBreaker
        w == pv[p]
    IN  IF ~resilience.enabled THEN pv
        ELSE IF success
             THEN [pv EXCEPT ![p].circuitBreakerState =
                                 IF @ = "half-open" THEN "closed" ELSE @,
                             ![p].successCount = @ + 1,
                             ![p].failureCount =
                                 IF w.circuitBreakerState = "half-open" THEN 0 ELSE @]
             ELSE LET recentFailures == w.failureCount + 1 IN
                  IF recentFailures >= resilience.threshold /\ w.circuitBreakerState = "closed"
                  THEN [pv EXCEPT ![p].failureCount = recentFailures,
                                  ![p].circuitBreakerState = "open",
                                  ![p].circuitBreakerOpenedAt = clock,
                                  ![p].circuitBreakerTrips = @ + 1]
                  ELSE [pv EXCEPT ![p].failureCount = recentFailures]

\* An updateCircuitBreakerState whose successes start the failure count anew.
SuccessResetsFailures(pv, p, success) ==
    LET resilience == cfg.circuitBreaker
        w == pv[p]
    IN  IF ~resilience.enabled THEN pv
        ELSE IF success
             THEN [pv EXCEPT ![p].circuitBreakerState =
                                 IF @ = "half-open" THEN "closed" ELSE @,
                             ![p].successCount = @ + 1,
                             ![p].failureCount = 0]
             ELSE LET recentFailures == w.failureCount + 1 IN
                  IF recentFailures >= resilience.threshold /\ w.circuitBreakerState = "closed"
                  THEN [pv EXCEPT ![p].failureCount = recentFailures,
                                  ![p].circuitBreakerState = "open",
                                  ![p].circuitBreakerOpenedAt = clock,
                                  ![p].circuitBreakerTrips = @ + 1]
                  ELSE [pv EXCEPT ![p].failureCount = recentFailures]

\* An updateCircuitBreakerState that trips at the threshold whatever the state.
TripsInAnyState(pv, p, success) ==
    LET resilience == cfg.circuitBreaker
        w == pv[p]
    IN  IF ~resilience.enabled THEN pv
        ELSE IF success
             THEN [pv EXCEPT ![p].circuitBreakerState =
                                 IF @ = "half-open" THEN "closed" ELSE @,
                             ![p].successCount = @ + 1]
             ELSE LET recentFailures == w.failureCount + 1 IN
                  IF recentFailures >= resilience.threshold
                  THEN [pv EXCEPT ![p].failureCount = recentFailures,
                                  ![p].circuitBreakerState = "open",
                                  ![p].circuitBreakerOpenedAt = clock,
                                  ![p].circuitBreakerTrips = @ + 1]
                  ELSE [pv EXCEPT ![p].failureCount = recentFailures]

\* updateCircuitBreakerState(providerName, success)
updateCircuitBreakerState(pv, p, success) ==
    LET resilience == cfg.circuitBreaker
        w == pv[p]
    IN  IF ~resilience.enabled THEN pv
        ELSE IF success
             THEN [pv EXCEPT ![p].circuitBreakerState =
                                 IF @ = "half-open" THEN "closed" ELSE @,
                             ![p].successCount = @ + 1]
             ELSE LET recentFailures == w.failureCount + 1 IN
                  IF recentFailures >= resilience.threshold /\ w.circuitBreakerState = "closed"
                  THEN [pv EXCEPT ![p].failureCount = recentFailures,
                                  ![p].circuitBreakerState = "open",
                                  ![p].circuitBreakerOpenedAt = clock,
                                  ![p].circuitBreakerTrips = @ + 1]
                  ELSE [pv EXCEPT ![p].failureCount = recentFailures]

\* checkRateLimit(providerName)
checkRateLimit(p) ==
    IF ~cfg.rateLimit[p] THEN TRUE
    ELSE LimiterCounts(p).RECEIVED < cfg.maxConcurrent[p]

\* An updateMetrics that stamps lastUsed with the response time, not the clock.
StampedWithResponseTime(pv, p, success, responseTime, rateLimited) ==
    LET w == pv[p]
        totalSuccessful == w.successfulRequests + (IF ~rateLimited /\ success THEN 1 ELSE 0)
        avg == w.averageResponseTime
    IN  [pv EXCEPT
            ![p].totalRequests = @ + 1,
            ![p].lastRequestTime = clock,
            ![p].lastUsed = responseTime,
            ![p].rateLimitedRequests = IF rateLimited THEN @ + 1 ELSE @,
            ![p].successfulRequests = IF ~rateLimited /\ success THEN @ + 1 ELSE @,
            ![p].failedRequests = IF ~rateLimited /\ ~success THEN @ + 1 ELSE @,
            ![p].averageResponseTime =
                IF totalSuccessful > 0
                THEN Rat(avg[1] * (totalSuccessful - 1) + responseTime * avg[2],
                         avg[2] * totalSuccessful)
                ELSE @]

\* An updateMetrics that leaves the rate-limit skips out of totalRequests.
SkipOutsideTotal(pv, p, success, responseTime, rateLimited) ==
    LET w == pv[p]
        totalSuccessful == w.successfulRequests + (IF ~rateLimited /\ success THEN 1 ELSE 0)
        avg == w.averageResponseTime
    IN  [pv EXCEPT
            ![p].totalRequests = IF rateLimited THEN @ ELSE @ + 1,
            ![p].lastRequestTime = clock,
            ![p].lastUsed = clock,
            ![p].rateLimitedRequests = IF rateLimited THEN @ + 1 ELSE @,
            ![p].successfulRequests = IF ~rateLimited /\ success THEN @ + 1 ELSE @,
            ![p].failedRequests = IF ~rateLimited /\ ~success THEN @ + 1 ELSE @,
            ![p].averageResponseTime =
                IF totalSuccessful > 0
                THEN Rat(avg[1] * (totalSuccessful - 1) + responseTime * avg[2],
                         avg[2] * totalSuccessful)
                ELSE @]

\* An updateMetrics that counts a rate-limit skip as a failed request as well.
SkipCountedAsFailure(pv, p, success, responseTime, rateLimited) ==
    LET w == pv[p]
        totalSuccessful == w.successfulRequests + (IF ~rateLimited /\ success THEN 1 ELSE 0)
        avg == w.averageResponseTime
    IN  [pv EXCEPT
            ![p].totalRequests = @ + 1,
            ![p].lastRequestTime = clock,
            ![p].lastUsed = clock,
            ![p].rateLimitedRequests = IF rateLimited THEN @ + 1 ELSE @,
            ![p].successfulRequests = IF ~rateLimited /\ success THEN @ + 1 ELSE @,
            ![p].failedRequests = IF ~success THEN @ + 1 ELSE @,
            ![p].averageResponseTime =
                IF totalSuccessful > 0
                THEN Rat(avg[1] * (totalSuccessful - 1) + responseTime * avg[2],
                         avg[2] * totalSuccessful)
                ELSE @]

\* updateMetrics(providerName, success, responseTime, rateLimited)
updateMetrics(pv, p, success, responseTime, rateLimited) ==
    LET w == pv[p]
        totalSuccessful == w.successfulRequests + (IF ~rateLimited /\ success THEN 1 ELSE 0)
        avg == w.averageResponseTime
    IN  [pv EXCEPT
            ![p].totalRequests = @ + 1,
            ![p].lastRequestTime = clock,
            ![p].lastUsed = clock,
            ![p].rateLimitedRequests = IF rateLimited THEN @ + 1 ELSE @,
            ![p].successfulRequests = IF ~rateLimited /\ success THEN @ + 1 ELSE @,
            ![p].failedRequests = IF ~rateLimited /\ ~success THEN @ + 1 ELSE @,
            ![p].averageResponseTime =
                IF totalSuccessful > 0
                THEN Rat(avg[1] * (totalSuccessful - 1) + responseTime * avg[2],
                         avg[2] * totalSuccessful)
                ELSE @]

\* Every loaded provider, whatever models it declares.
AnyModelProviders(model) ==
    LET Kept(name) == cfg.enabled[name]
    IN  SelectSeq(cfg.provs, Kept)

\* The names of this.providers in the order of the map: initializeProviders
\* leaves out the entries declared enabled: false.
LoadedProviders ==
    LET Kept(name) == cfg.enabled[name]
    IN  SelectSeq(cfg.provs, Kept)

\* getProvidersForModel(model): names in the order of the providers map.
getProvidersForModel(model) ==
    LET Supports(name) == /\ cfg.enabled[name]
                          /\ \E i \in 1..Len(cfg.models[name]) :
                                cfg.models[name][i].name = model
    IN  SelectSeq(LoadedProviders, Supports)

\* An ordering by ascending lastUsed that puts a provider ahead of the earlier
\* ones it ties with.
RECURSIVE OrderedTiesReversed(_, _)
OrderedTiesReversed(pv, s) ==
    IF s = <<>> THEN <<>>
    ELSE LET n == Len(s)
             rest == OrderedTiesReversed(pv, SubSeq(s, 1, n - 1))
             x == s[n]
             k == Cardinality({i \in 1..Len(rest) : pv[rest[i]].lastUsed < pv[x].lastUsed})
         IN  SubSeq(rest, 1, k) \o <<x>> \o SubSeq(rest, k + 1, Len(rest))

\* getRoundRobinOrderedProviders: a stable sort by ascending lastUsed.
RECURSIVE getRoundRobinOrderedProviders(_, _)
getRoundRobinOrderedProviders(pv, s) ==
    IF s = <<>> THEN <<>>
    ELSE LET n == Len(s)
             rest == getRoundRobinOrderedProviders(pv, SubSeq(s, 1, n - 1))
             x == s[n]
             k == Cardinality({i \in 1..Len(rest) : pv[rest[i]].lastUsed <= pv[x].lastUsed})
         IN  SubSeq(rest, 1, k) \o <<x>> \o SubSeq(rest, k + 1, Len(rest))

\* The cost of a provider in getCostPriorityOrderedProviders, doubled: the
\* two costs of its first model are summed rather than averaged.
\* avgCost / (1 / priority) is avgCost * priority.
CostScore(p) ==
    LET models == cfg.models[p]
        priority == IF cfg.priority[p] = 0 THEN 1 ELSE cfg.priority[p]
    IN  IF models = <<>> THEN Infinity
        ELSE (models[1].costPer1kInputTokens + models[1].costPer1kOutputTokens) * priority

\* The candidates in the order of the configuration, costs ignored.
OrderedAsConfigured(s) == s

\* getCostPriorityOrderedProviders: a stable sort by ascending cost.
RECURSIVE getCostPriorityOrderedProviders(_)
getCostPriorityOrderedProviders(s) ==
    IF s = <<>> THEN <<>>
    ELSE LET n == Len(s)
             rest == getCostPriorityOrderedProviders(SubSeq(s, 1, n - 1))
             x == s[n]
             k == Cardinality({i \in 1..Len(rest) : CostScore(rest[i]) <= CostScore(x)})
         IN  SubSeq(rest, 1, k) \o <<x>> \o SubSeq(rest, k + 1, Len(rest))

----------------------------------------------------------------------------
(* selectProvider.  A segment takes and returns st = [cl, pol, pv, h]: the  *)
(* caller's frame, the policy breaker, the provider map and the history.    *)

\* A loop that books a rate-limit hit for every candidate it skips, those
\* skipped for an open breaker included.
ScanBookingEverySkip(st, i) ==
    LET ord == st.cl.ordered
        passing == {j \in i..Len(ord) : ~isCircuitBreakerOpen(st.pv, ord[j]).open}
        last == IF passing = {} THEN Len(ord) ELSE Min(passing) - 1
        skipped == {ord[k] : k \in i..last}
        booked == [q \in Providers |->
                      IF q \in skipped THEN updateMetrics(st.pv, q, FALSE, 0, TRUE)[q]
                      ELSE st.pv[q]]
    IN  IF passing = {}
        THEN [st EXCEPT !.cl.pc = "selRet", !.cl.provider = "", !.cl.idx = Len(ord) + 1,
                        !.cl.skips = @ \cup skipped,
                        !.pv = booked,
                        !.h.skipped = @ \/ i <= Len(ord)]
        ELSE LET j == Min(passing) IN
             [st EXCEPT !.cl.pc = "selAct", !.cl.idx = j,
                        !.cl.hasCap = checkRateLimit(ord[j]),
                        !.cl.gateState = st.pv[ord[j]].circuitBreakerState,
                        !.pv = isCircuitBreakerOpen(booked, ord[j]).pv,
                        !.cl.skips = @ \cup skipped,
                        !.h.skipped = @ \/ j > i]

\* The for loop of selectProvider from candidate i up to its next await
\* (after checkRateLimit) or its return of null.
SelectScan(st, i) ==
    LET ord == st.cl.ordered
        passing == {j \in i..Len(ord) : ~isCircuitBreakerOpen(st.pv, ord[j]).open}
    IN  IF passing = {}
        THEN [st EXCEPT !.cl.pc = "selRet", !.cl.provider = "", !.cl.idx = Len(ord) + 1,
                        !.cl.skips = @ \cup {ord[j] : j \in i..Len(ord)},
                        !.h.skipped = @ \/ i <= Len(ord)]
        ELSE LET j == Min(passing) IN
             [st EXCEPT !.cl.pc = "selAct", !.cl.idx = j,
                        !.cl.hasCap = checkRateLimit(ord[j]),
                        !.cl.gateState = st.pv[ord[j]].circuitBreakerState,
                        !.pv = isCircuitBreakerOpen(st.pv, ord[j]).pv,
                        !.cl.skips = @ \cup {ord[k] : k \in i..(j - 1)},
                        !.h.skipped = @ \/ j > i]

\* The outcomes on record so far, over the providers of s.
RECURSIVE Recorded(_, _)
Recorded(pv, s) ==
    IF s = <<>> THEN 0 ELSE pv[Head(s)].totalRequests + Recorded(pv, Tail(s))

\* selectProvider(providers) up to its first await or return.
selectProvider(st, providers) ==
    LET Named(name) == name \in Range(providers) /\ cfg.enabled[name]
        availableProviders == SelectSeq(LoadedProviders, Named)
    IN  IF providers = <<>> \/ availableProviders = <<>>
        THEN [st EXCEPT !.cl.pc = "selRet", !.cl.provider = "",
                        !.cl.ordered = <<>>, !.cl.idx = 0, !.cl.skips = {}]
        ELSE SelectScan([st EXCEPT !.cl.ordered =
                            IF cfg.strategy = "cost_priority_round_robin"
                            THEN getCostPriorityOrderedProviders(availableProviders)
                            ELSE getRoundRobinOrderedProviders(st.pv, availableProviders),
                                   !.cl.seen = Recorded(st.pv, cfg.provs),
                                   !.cl.skips = {}], 1)

\* A first pass that takes every candidate for the model, preferred or not.
SelectIgnoringPreferred(st) ==
    selectProvider([st EXCEPT !.cl.pass = 1, !.cl.rounds = @ + 1], st.cl.avail)

\* The first pass of execute: the preferred providers that support the model.
SelectPreferred(st) ==
    LET Avail(p) == p \in Range(st.cl.avail)
    IN  selectProvider([st EXCEPT !.cl.pass = 1, !.cl.rounds = @ + 1],
                       SelectSeq(st.cl.pref, Avail))

----------------------------------------------------------------------------
(* The policy of makeResiliencePolicy: wrap(retry, circuitBreaker)          *)

\* A loop bound that falls back on DEFAULT_RETRY.attempts when retry is disabled.
MaxRetriesDefaulted == IF cfg.retry.enabled THEN cfg.retry.attempts ELSE 3

maxRetries == IF cfg.retry.enabled THEN cfg.retry.attempts ELSE 1

HasBreakerPolicy == cfg.flavor = "ResilientRouter" /\ cfg.circuitBreaker.enabled
HasRetryPolicy == cfg.flavor = "ResilientRouter" /\ cfg.retry.enabled

\* The function handed to policy.execute has settled with `status`.
Settle(st, status, err, errInv, resp) ==
    [st EXCEPT !.cl.pc = IF cfg.flavor = "ResilientRouter" THEN "polResult" ELSE "done",
               !.cl.status = status, !.cl.err = err, !.cl.errInv = errInv,
               !.cl.resp = resp,
               !.h.rejected = IF cfg.flavor # "ResilientRouter" /\ status = "err"
                              THEN @ + 1 ELSE @,
               !.h.failed = IF status = "err" /\ err \in {"HandlerError", "NoIntegration"}
                            THEN [provider |-> st.cl.provider,
                                  cands |-> Range(st.cl.ordered), seen |-> st.cl.seen]
                            ELSE @]

\* One attempt of the retry policy: circuitBreaker.execute(fn) up to the
\* first await of fn.
PolicyAttempt(st) ==
    LET fresh == [st EXCEPT !.cl.status = "none", !.cl.err = "", !.cl.errInv = 0,
                            !.cl.resp = "", !.cl.ran = FALSE, !.cl.isTest = FALSE]
    IN  IF ~HasBreakerPolicy THEN SelectPreferred(fresh)
        ELSE CASE st.pol.state = "closed" ->
                    SelectPreferred([fresh EXCEPT !.cl.ran = TRUE])
               [] st.pol.state = "halfOpen" ->
                    [fresh EXCEPT !.cl.pc = "polWait"]
               [] st.pol.state = "open" ->
                    IF clock - st.pol.openedAt < cfg.circuitBreaker.resetTimeoutMs
                    THEN Settle(fresh, "err", "BrokenCircuit", 0, "")
                    ELSE SelectPreferred([fresh EXCEPT !.pol.state = "halfOpen",
                                                       !.cl.ran = TRUE, !.cl.isTest = TRUE])

\* A breaker that trips only when the failures exceed the threshold.
BreakerTripsLate(pol, isTest, ok) ==
    IF ok
    THEN IF isTest THEN [pol EXCEPT !.state = "closed", !.count = 0]
                   ELSE [pol EXCEPT !.count = 0]
    ELSE LET count == pol.count + 1
             trip == isTest \/ count > cfg.circuitBreaker.threshold
         IN  IF trip /\ pol.state # "open"
             THEN [pol EXCEPT !.count = count, !.state = "open", !.openedAt = clock]
             ELSE [pol EXCEPT !.count = count]

\* ConsecutiveBreaker bookkeeping once fn has settled.
BreakerRecord(pol, isTest, ok) ==
    IF ok
    THEN IF isTest THEN [pol EXCEPT !.state = "closed", !.count = 0]
                   ELSE [pol EXCEPT !.count = 0]
    ELSE LET count == pol.count + 1
             trip == isTest \/ count >= cfg.circuitBreaker.threshold
         IN  IF trip /\ pol.state # "open"
             THEN [pol EXCEPT !.count = count, !.state = "open", !.openedAt = clock]
             ELSE [pol EXCEPT !.count = count]

----------------------------------------------------------------------------
(* Actions *)

Frame(c) == [cl |-> call[c], pol |-> policy, pv |-> prov, h |-> hist]

Commit(c, st) ==
    /\ call' = [call EXCEPT ![c] = st.cl]
    /\ policy' = st.pol
    /\ prov' = st.pv
    /\ hist' = st.h

Active(c) == call[c].pc \notin {"idle", "done"}

\* Some call waits on a promise that is already settled: its continuation is
\* on the microtask queue, which runs before any timer or I/O callback.  These
\* are the awaits of checkRateLimit and selectProvider, the policy's await of
\* the function it runs, and the wait for a half-open trial that is over.
MicrotaskPending ==
    \E c \in Clients :
        \/ call[c].pc \in {"selAct", "selRet", "polResult"}
        \/ call[c].pc = "polWait" /\ policy.state # "halfOpen"

\* The execute() calls the clients of this configuration issue.
MaxExec == cfg.execs

\* A resolution that falls back on the first model of the first provider.
ModelOrFirstConfigured(m) ==
    IF m # "" THEN m
    ELSE IF cfg.defaultModel # "" THEN cfg.defaultModel
    ELSE cfg.models[cfg.provs[1]][1].name

\* const model = request.model || this.defaultModel
ResolveModel(m) == IF m # "" THEN m ELSE cfg.defaultModel

\* execute(request, preferredProviders) up to its first await.
Start(c) ==
    /\ c \in cfg.clients
    /\ ~Active(c)
    /\ hist.execs < MaxExec
    /\ \E m \in cfg.reqModels, pref \in cfg.prefs :
          LET model == ResolveModel(m)
              availableProviders == getProvidersForModel(model)
              st == [Frame(c) EXCEPT
                        !.cl = [IdleCall EXCEPT !.reqModel = m, !.model = model,
                                                !.pref = pref,
                                                !.avail = availableProviders,
                                                !.after = hist.failed],
                        !.h.execs = @ + 1, !.h.failed = NoFailure,
                        !.h.overlapped = @ \/ \E d \in Clients \ {c} : Active(d)]
          IN  Commit(c,
                 IF model = ""
                 THEN [st EXCEPT !.cl.pc = "done", !.cl.status = "err", !.cl.err = "NoModel",
                                 !.h.rejected = @ + 1]
                 ELSE IF availableProviders = <<>>
                 THEN [st EXCEPT !.cl.pc = "done", !.cl.status = "err",
                                 !.cl.err = "NoProvidersForModel", !.h.rejected = @ + 1]
                 ELSE IF cfg.flavor = "ResilientRouter" THEN PolicyAttempt(st)
                 ELSE SelectPreferred(st))
    /\ UNCHANGED <<cfg, clock, queue, nextRequest>>

\* A selectProvider that stamps lastUsed on the provider it returns.
SelectActStamping(c) ==
    /\ call[c].pc = "selAct"
    /\ LET st == Frame(c)
           p == st.cl.ordered[st.cl.idx]
       IN  Commit(c,
              IF st.cl.hasCap
              THEN [st EXCEPT !.cl.pc = "selRet", !.cl.provider = p,
                              !.pv[p].lastUsed = clock]
              ELSE SelectScan([st EXCEPT !.pv = updateMetrics(st.pv, p, FALSE, 0, TRUE),
                                         !.cl.skips = @ \cup {p},
                                         !.cl.limited[p] = @ + 1,
                                         !.h.skipped = TRUE],
                              st.cl.idx + 1))
    /\ UNCHANGED <<cfg, clock, queue, nextRequest>>

\* selectProvider after `await this.checkRateLimit(providerName)`.
SelectAct(c) ==
    /\ call[c].pc = "selAct"
    /\ LET st == Frame(c)
           p == st.cl.ordered[st.cl.idx]
       IN  Commit(c,
              IF st.cl.hasCap
              THEN [st EXCEPT !.cl.pc = "selRet", !.cl.provider = p]
              ELSE SelectScan([st EXCEPT !.pv = updateMetrics(st.pv, p, FALSE, 0, TRUE),
                                         !.cl.skips = @ \cup {p},
                                         !.cl.limited[p] = @ + 1,
                                         !.h.skipped = TRUE],
                              st.cl.idx + 1))
    /\ UNCHANGED <<cfg, clock, queue, nextRequest>>

\* executeWithRateLimit(providerName, request) up to limiter.schedule.
ExecBegin(st) ==
    LET p == st.cl.provider
        chosen == [st EXCEPT !.h.selCount[p] = @ + 1,
                             !.cl.startTime = clock, !.cl.retryAttempts = 0]
    IN  IF cfg.flavor = "ResilientRouter" /\ maxRetries <= 0
        THEN \* the while loop is not entered: success is still false
             Settle([chosen EXCEPT
                        !.pv = updateMetrics(updateCircuitBreakerState(st.pv, p, FALSE),
                                             p, FALSE, 0, FALSE),
                        !.cl.cbUpd = @ + 1, !.cl.metUpd = @ + 1],
                    "ok", "", 0, "")
        ELSE [chosen EXCEPT !.cl.pc = "received"]

\* execute after `await this.selectProvider(...)`.
SelectReturn(c) ==
    /\ call[c].pc = "selRet"
    /\ LET st == Frame(c)
       IN  Commit(c,
              IF st.cl.provider = ""
              THEN IF st.cl.pass = 1
                   THEN selectProvider([st EXCEPT !.cl.pass = 2], st.cl.avail)
                   ELSE Settle([st EXCEPT !.cl.noneAdmissible = TRUE],
                               "err", "NoAvailable", 0, "")
              ELSE ExecBegin(st))
    /\ UNCHANGED <<cfg, clock, queue, nextRequest>>

\* A dispatch that sends every provider without handler to the built-in
\* integration.
HandlerOrBuiltin(p) == IF cfg.handler[p] THEN "handler" ELSE "builtin"

\* What the function scheduled on the limiter calls for provider p.
Integration(p) ==
    IF cfg.handler[p] THEN "handler"
    ELSE IF cfg.type[p] \in {"openai", "ollama"} THEN "builtin"
    ELSE "none"

\* Bottleneck: a RECEIVED job is put on the limiter's queue.
LimiterQueue(c) ==
    /\ ~MicrotaskPending
    /\ call[c].pc = "received"
    /\ call' = [call EXCEPT ![c].pc = "queued"]
    /\ queue' = [queue EXCEPT ![call[c].provider] = Append(@, c)]
    /\ UNCHANGED <<cfg, clock, prov, nextRequest, policy, hist>>

\* Bottleneck: the head of the queue is launched when a slot is free; the
\* scheduled function calls the handler.
LimiterLaunch(c) ==
    LET p == call[c].provider IN
    /\ ~MicrotaskPending
    /\ call[c].pc = "queued"
    /\ queue[p] # <<>> /\ Head(queue[p]) = c
    /\ LimiterCounts(p).EXECUTING < cfg.maxConcurrent[p]
    /\ clock >= nextRequest[p]
    /\ hist.invokes < MaxInvoke
    /\ queue' = [queue EXCEPT ![p] = Tail(@)]
    /\ nextRequest' = [nextRequest EXCEPT ![p] = clock + cfg.minTime[p]]
    /\ call' = [call EXCEPT ![c].pc = "executing",
                            ![c].hcalls = IF Integration(p) = "none" THEN @ ELSE @ + 1,
                            ![c].used = IF Integration(p) = "none" THEN @ ELSE @ \cup {p},
                            ![c].invoked = Integration(p)]
    /\ hist' = [hist EXCEPT !.invokes = @ + 1]
    /\ UNCHANGED <<cfg, clock, prov, policy>>

\* The outcomes the scheduled function of provider p can have: a custom
\* handler returns or throws, the built-in integration returns, and a type
\* without integration throws.
Outcomes(p) ==
    CASE Integration(p) = "handler" -> {TRUE, FALSE}
      [] Integration(p) = "builtin" -> {TRUE}
      [] OTHER -> {FALSE}

\* An executeWithRateLimit that records the outcome when the last attempt of
\* the loop has failed, as it does after a success.
RecordFinalFailure(st, ok) ==
    LET p == st.cl.provider
        responseTime == clock - st.cl.startTime
        retryAttempts == st.cl.retryAttempts + 1
        err == IF Integration(p) = "none" THEN "NoIntegration" ELSE "HandlerError"
        recorded == [st EXCEPT
                        !.pv = updateMetrics(updateCircuitBreakerState(st.pv, p, ok),
                                             p, ok, responseTime, FALSE),
                        !.cl.cbUpd = @ + 1, !.cl.metUpd = @ + 1]
    IN  IF ok
        THEN Settle([recorded EXCEPT !.h.hok[p] = @ + 1], "ok", "", 0, p)
        ELSE LET failed == [st EXCEPT !.cl.retryAttempts = retryAttempts,
                                      !.cl.hfail = @ + 1, !.h.hfail[p] = @ + 1]
                 final == [recorded EXCEPT !.cl.retryAttempts = retryAttempts,
                                           !.cl.hfail = @ + 1, !.h.hfail[p] = @ + 1]
             IN  IF retryAttempts >= maxRetries
                 THEN Settle(final, "err", err, st.cl.hcalls, "")
                 ELSE [failed EXCEPT !.cl.pc = "backoff", !.cl.err = err,
                                     !.cl.errInv = st.cl.hcalls]

\* An executeWithRateLimit that records every failed attempt of the loop.
RecordEveryAttempt(st, ok) ==
    LET p == st.cl.provider
        responseTime == clock - st.cl.startTime
        retryAttempts == st.cl.retryAttempts + 1
        err == IF Integration(p) = "none" THEN "NoIntegration" ELSE "HandlerError"
        recorded == [st EXCEPT
                        !.pv = updateMetrics(updateCircuitBreakerState(st.pv, p, ok),
                                             p, ok, responseTime, FALSE),
                        !.cl.cbUpd = @ + 1, !.cl.metUpd = @ + 1]
    IN  IF ok
        THEN Settle([recorded EXCEPT !.h.hok[p] = @ + 1], "ok", "", 0, p)
        ELSE LET failed == [recorded EXCEPT !.cl.retryAttempts = retryAttempts,
                                            !.cl.hfail = @ + 1, !.h.hfail[p] = @ + 1]
             IN  IF retryAttempts >= maxRetries
                 THEN Settle(failed, "err", err, st.cl.hcalls, "")
                 ELSE [failed EXCEPT !.cl.pc = "backoff", !.cl.err = err,
                                     !.cl.errInv = st.cl.hcalls]

\* ResilientRouter.executeWithRateLimit after `await limiter.schedule(...)`.
ResilientAfter(st, ok) ==
    LET p == st.cl.provider
        responseTime == clock - st.cl.startTime
        retryAttempts == st.cl.retryAttempts + 1
        err == IF Integration(p) = "none" THEN "NoIntegration" ELSE "HandlerError"
    IN  IF ok
        THEN Settle([st EXCEPT
                        !.pv = updateMetrics(updateCircuitBreakerState(st.pv, p, TRUE),
                                             p, TRUE, responseTime, FALSE),
                        !.cl.cbUpd = @ + 1, !.cl.metUpd = @ + 1,
                        !.h.hok[p] = @ + 1],
                    "ok", "", 0, p)
        ELSE LET failed == [st EXCEPT !.cl.retryAttempts = retryAttempts,
                                      !.cl.hfail = @ + 1, !.h.hfail[p] = @ + 1]
             IN  IF retryAttempts >= maxRetries
                 THEN Settle(failed, "err", err, st.cl.hcalls, "")
                 ELSE [failed EXCEPT !.cl.pc = "backoff", !.cl.err = err,
                                     !.cl.errInv = st.cl.hcalls]

\* An executeWithRateLimit that tells the breaker of a failure in the catch
\* block and once more in the finally block.
BaseAfterFailingTwice(st, ok) ==
    LET p == st.cl.provider
        responseTime == clock - st.cl.startTime
        err == IF Integration(p) = "none" THEN "NoIntegration" ELSE "HandlerError"
        once == updateCircuitBreakerState(st.pv, p, ok)
        recorded == [st EXCEPT
                        !.pv = updateMetrics(IF ok THEN once
                                             ELSE updateCircuitBreakerState(once, p, ok),
                                             p, ok, responseTime, FALSE),
                        !.cl.cbUpd = @ + 1, !.cl.metUpd = @ + 1,
                        !.cl.hfail = IF ok THEN @ ELSE @ + 1,
                        !.h.hok[p] = IF ok THEN @ + 1 ELSE @,
                        !.h.hfail[p] = IF ok THEN @ ELSE @ + 1]
    IN  IF ok THEN Settle(recorded, "ok", "", 0, p)
        ELSE Settle(recorded, "err", err, st.cl.hcalls, "")

\* An executeWithRateLimit whose bookkeeping is lost when another call is in
\* flight on the same provider.
BaseAfterLosingUpdates(st, ok) ==
    LET p == st.cl.provider
        responseTime == clock - st.cl.startTime
        err == IF Integration(p) = "none" THEN "NoIntegration" ELSE "HandlerError"
        alone == ~\E d \in Clients : call[d] # st.cl /\ call[d].provider = p
                                      /\ call[d].pc \in {"received", "queued", "executing"}
        recorded == [st EXCEPT
                        !.pv = IF alone
                               THEN updateMetrics(updateCircuitBreakerState(st.pv, p, ok),
                                                  p, ok, responseTime, FALSE)
                               ELSE @,
                        !.cl.cbUpd = @ + 1, !.cl.metUpd = @ + 1,
                        !.cl.hfail = IF ok THEN @ ELSE @ + 1,
                        !.h.hok[p] = IF ok THEN @ + 1 ELSE @,
                        !.h.hfail[p] = IF ok THEN @ ELSE @ + 1]
    IN  IF ok THEN Settle(recorded, "ok", "", 0, p)
        ELSE Settle(recorded, "err", err, st.cl.hcalls, "")

\* LLMRouter.executeWithRateLimit after `await limiter.schedule(...)`.
BaseAfter(st, ok) ==
    LET p == st.cl.provider
        responseTime == clock - st.cl.startTime
        err == IF Integration(p) = "none" THEN "NoIntegration" ELSE "HandlerError"
        recorded == [st EXCEPT
                        !.pv = updateMetrics(updateCircuitBreakerState(st.pv, p, ok),
                                             p, ok, responseTime, FALSE),
                        !.cl.cbUpd = @ + 1, !.cl.metUpd = @ + 1,
                        !.cl.hfail = IF ok THEN @ ELSE @ + 1,
                        !.h.hok[p] = IF ok THEN @ + 1 ELSE @,
                        !.h.hfail[p] = IF ok THEN @ ELSE @ + 1]
    IN  IF ok THEN Settle(recorded, "ok", "", 0, p)
        ELSE Settle(recorded, "err", err, st.cl.hcalls, "")

\* The handler (or built-in integration) returns or throws.
HandlerReturn(c) ==
    /\ ~MicrotaskPending
    /\ call[c].pc = "executing"
    /\ \E ok \in Outcomes(call[c].provider) :
          Commit(c, IF cfg.flavor = "ResilientRouter"
                    THEN ResilientAfter(Frame(c), ok)
                    ELSE BaseAfter(Frame(c), ok))
    /\ UNCHANGED <<cfg, clock, queue, nextRequest>>

\* ResilientRouter.executeWithRateLimit: the backoff delay is over, the loop
\* schedules the next attempt on the same limiter.
Backoff(c) ==
    /\ ~MicrotaskPending
    /\ call[c].pc = "backoff"
    /\ call' = [call EXCEPT ![c].pc = "received"]
    /\ UNCHANGED <<cfg, clock, prov, queue, nextRequest, policy, hist>>

\* A retry policy that counts the first execution among its maxAttempts.
PolicyResultCountingFirst(c) ==
    /\ call[c].pc = "polResult"
    /\ LET cl == call[c]
           ok == cl.status = "ok"
           again == ~ok /\ HasRetryPolicy /\ cl.retries + 1 < cfg.retry.attempts
       IN  /\ policy' = IF HasBreakerPolicy /\ cl.ran
                        THEN BreakerRecord(policy, cl.isTest, ok)
                        ELSE policy
           /\ call' = [call EXCEPT
                  ![c].pc = IF again THEN "polBackoff" ELSE "done",
                  ![c].retries = IF again THEN @ + 1 ELSE @]
           /\ hist' = [hist EXCEPT !.rejected = IF ~ok /\ ~again THEN @ + 1 ELSE @]
    /\ UNCHANGED <<cfg, clock, prov, queue, nextRequest>>

\* The policy sees fn settle: breaker bookkeeping, then the retry decision.
PolicyResult(c) ==
    /\ call[c].pc = "polResult"
    /\ LET cl == call[c]
           ok == cl.status = "ok"
           again == ~ok /\ HasRetryPolicy /\ cl.retries < cfg.retry.attempts
       IN  /\ policy' = IF HasBreakerPolicy /\ cl.ran
                        THEN BreakerRecord(policy, cl.isTest, ok)
                        ELSE policy
           /\ call' = [call EXCEPT
                  ![c].pc = IF again THEN "polBackoff" ELSE "done",
                  ![c].retries = IF again THEN @ + 1 ELSE @]
           /\ hist' = [hist EXCEPT !.rejected = IF ~ok /\ ~again THEN @ + 1 ELSE @]
    /\ UNCHANGED <<cfg, clock, prov, queue, nextRequest>>

\* The retry policy's backoff is over: the next attempt.
PolicyRetry(c) ==
    /\ ~MicrotaskPending
    /\ call[c].pc = "polBackoff"
    /\ Commit(c, PolicyAttempt(Frame(c)))
    /\ UNCHANGED <<cfg, clock, queue, nextRequest>>

\* A call that found the policy breaker half-open resumes when the trial is over.
PolicyWake(c) ==
    /\ call[c].pc = "polWait"
    /\ policy.state # "halfOpen"
    /\ Commit(c, PolicyAttempt(Frame(c)))
    /\ UNCHANGED <<cfg, clock, queue, nextRequest>>

\* Time passes.
Tick ==
    /\ clock < MaxClock
    /\ clock' = clock + 1
    /\ UNCHANGED <<cfg, prov, queue, nextRequest, policy, call, hist>>

Next ==
    \/ \E c \in Clients : Start(c)
    \/ \E c \in Clients : SelectAct(c)
    \/ \E c \in Clients : SelectReturn(c)
    \/ \E c \in Clients : LimiterQueue(c)
    \/ \E c \in Clients : LimiterLaunch(c)
    \/ \E c \in Clients : HandlerReturn(c)
    \/ \E c \in Clients : Backoff(c)
    \/ \E c \in Clients : PolicyResult(c)
    \/ \E c \in Clients : PolicyRetry(c)
    \/ \E c \in Clients : PolicyWake(c)
    \/ Tick

Spec == Init /\ [][Next]_vars

----------------------------------------------------------------------------
(* Claims *)

Done(c) == call[c].pc = "done"
Resilient == cfg.flavor = "ResilientRouter"
SingleProvider == Len(cfg.provs) = 1

\* C1: with retry enabled (attempts = n >= 1), the breaker disabled and one
\* provider whose handler always fails, one execute call invokes the handler
\* exactly n times and rejects with the handler's error.
C1_RetryBound ==
    \A c \in Clients :
        (/\ Resilient /\ SingleProvider
         /\ cfg.retry.enabled /\ cfg.retry.attempts >= 1
         /\ ~cfg.circuitBreaker.enabled
         /\ Done(c) /\ call[c].hcalls >= 1
         /\ call[c].hfail = call[c].hcalls)
        => /\ call[c].hcalls = cfg.retry.attempts
           /\ call[c].status = "err"
           /\ call[c].err = "HandlerError"

\* C2: with retry enabled (attempts = n) and one provider whose handler fails
\* k < n times and then succeeds, execute resolves with the handler's response
\* after exactly k+1 invocations; on a fresh router the provider's metrics are
\* then totalRequests = 1, successfulRequests = 1, failedRequests = 0 and its
\* circuit is closed, also when k reaches the breaker threshold.
C2_RetryThenSuccess ==
    \A c \in Clients :
        (/\ Resilient /\ SingleProvider /\ cfg.clients = {c}
         /\ cfg.retry.enabled
         /\ Done(c) /\ call[c].status = "ok"
         /\ call[c].hfail < cfg.retry.attempts)
        => /\ call[c].hcalls = call[c].hfail + 1
           /\ call[c].resp = call[c].provider
           /\ call[c].provider = cfg.provs[1]
           /\ hist.execs = 1 =>
                LET w == prov[cfg.provs[1]] IN
                /\ w.totalRequests = 1
                /\ w.successfulRequests = 1
                /\ w.failedRequests = 0
                /\ w.failureCount = 0
                /\ w.circuitBreakerState = "closed"

\* C2 witness: a call that succeeded on its second invocation although the
\* single failure already equals the breaker threshold.
C2_Witness ==
    \E c \in Clients :
        /\ Resilient /\ SingleProvider /\ cfg.clients = {c}
        /\ cfg.retry.enabled /\ cfg.retry.attempts = 2
        /\ cfg.circuitBreaker.enabled /\ cfg.circuitBreaker.threshold = 1
        /\ Done(c) /\ call[c].status = "ok"
        /\ call[c].hfail = 1 /\ call[c].hcalls = 2
        /\ hist.execs = 1

\* C3: with the breaker enabled (threshold t), retry disabled and one provider
\* whose handler always fails, after t failed execute calls the provider's
\* circuit is open, and a further immediate execute fails fast with the
\* 'No available LLM providers' error without invoking the handler again.
C3_BreakerOpensAndFailsFast ==
    (/\ Resilient /\ SingleProvider
     /\ cfg.circuitBreaker.enabled /\ ~cfg.retry.enabled
     /\ hist.hok[cfg.provs[1]] = 0
     /\ hist.rejected >= cfg.circuitBreaker.threshold
     /\ clock = 1
     /\ \A c \in Clients : ~Active(c))
    => /\ prov[cfg.provs[1]].circuitBreakerState = "open"
       /\ \A c \in Clients :
            (Done(c) /\ hist.rejected > cfg.circuitBreaker.threshold)
            => /\ call[c].err = "NoAvailable"
               /\ call[c].hcalls = 0
               /\ hist.invokes = cfg.circuitBreaker.threshold

\* C4: every execute call that selects a provider and completes applies the
\* circuit-breaker update and the metrics update to it exactly once.
C4_OutcomeRecordedOnce ==
    \A c \in Clients :
        (/\ Resilient
         /\ maxRetries >= 1
         /\ Done(c) /\ call[c].hcalls >= 1
         /\ call[c].status = "ok" \/ call[c].err = "HandlerError")
        => /\ call[c].cbUpd = 1
           /\ call[c].metUpd = 1

\* C5: with providers A and B serving different models, failed calls routed to
\* A never make an execute for B's model fail or skip B's handler, as long as
\* B has not failed and is below its rate limit.
C5_BreakerPerProvider ==
    \A c \in Clients :
        (/\ Resilient /\ cfg.circuitBreaker.enabled
         /\ cfg.models = ModelsSplit
         /\ Done(c) /\ call[c].model = "m2"
         /\ hist.hfail["B"] = 0
         /\ cfg.maxConcurrent["B"] > Cardinality(Clients))
        => /\ call[c].status = "ok"
           /\ call[c].used = {"B"}

RoutingErrors == {"NoModel", "NoProvidersForModel", "NoAvailable", "NoIntegration"}

\* C6: every error execute raises is one of the router's routing errors or the
\* error a handler invocation of that call raised; a tripped circuit is never
\* surfaced as an error kind of its own.
C6_ErrorKinds ==
    \A c \in Clients :
        (Resilient /\ Done(c) /\ call[c].status = "err")
        => \/ call[c].err \in RoutingErrors
           \/ /\ call[c].err = "HandlerError"
              /\ call[c].errInv \in 1..call[c].hcalls

\* C7: when selection finds no admissible provider (both passes return
\* none), execute fails with the 'no available providers' error after that one
\* selection round; the retry policy does not run selection again for the call.
C7_NoAvailableNotRetried ==
    \A c \in Clients :
        (Resilient /\ cfg.retry.enabled /\ call[c].noneAdmissible)
        => /\ call[c].rounds = 1
           /\ Done(c) => call[c].err = "NoAvailable"

\* C8: the first attempt and every retry of one execute call invoke the
\* handler of the same provider.
C8_RetrySameProvider ==
    \A c \in Clients : Resilient => Cardinality(call[c].used) <= 1

\* Position of provider p in the providers map of the configuration.
ConfigIndex(p) == CHOOSE i \in 1..Len(cfg.provs) : cfg.provs[i] = p

\* p sorts before q: smaller lastUsed, or the same lastUsed and earlier in the
\* configuration.
SortsBefore(pv, p, q) ==
    \/ pv[p].lastUsed < pv[q].lastUsed
    \/ pv[p].lastUsed = pv[q].lastUsed /\ ConfigIndex(p) < ConfigIndex(q)

\* This step of c starts a selectProvider pass.
PassStarts(c) ==
    /\ call'[c].pc \in {"selAct", "selRet"}
    /\ \/ call[c].pc \in {"idle", "done", "polBackoff", "polWait"}
       \/ call[c].pc = "selRet" /\ call[c].provider = "" /\ call[c].pass = 1

\* The candidates of the pass that starts: the names selectProvider is given.
PassCandidates(c) ==
    IF call'[c].pass = 1 THEN Range(call'[c].pref) \cap Range(call'[c].avail)
    ELSE Range(call'[c].avail)

C9_Step(c) ==
    LET ord == call[c].ordered
        ordNew == call'[c].ordered
    IN  \* the pass examines the candidates by ascending lastUsed, ties in
        \* configuration order
        /\ PassStarts(c) =>
              /\ Range(ordNew) = PassCandidates(c)
              /\ \A i, j \in 1..Len(ordNew) :
                    i < j => SortsBefore(prov, ordNew[i], ordNew[j])
        \* a candidate that comes under examination has its gate not open, and
        \* the limiter is read there and then
        /\ (call'[c].pc = "selAct" /\ (PassStarts(c) \/ call[c].pc = "selAct"))
           => LET p == ordNew[call'[c].idx]
              IN  /\ ~isCircuitBreakerOpen(prov, p).open
                  /\ call'[c].hasCap = checkRateLimit(p)
        \* a candidate is passed over only when its gate is open or its limiter
        \* was saturated
        /\ \A q \in call'[c].skips :
              (PassStarts(c) \/ q \notin call[c].skips)
              => \/ isCircuitBreakerOpen(prov, q).open
                 \/ call[c].pc = "selAct" /\ q = ord[call[c].idx] /\ ~call[c].hasCap
        \* the provider returned is admissible, and every candidate that sorts
        \* before it was passed over
        /\ (call[c].pc = "selAct" /\ call'[c].pc = "selRet" /\ call'[c].provider # "")
           => /\ call'[c].provider = ord[call[c].idx]
              /\ call[c].hasCap
              /\ call'[c].provider \notin call'[c].skips
              /\ \A k \in 1..(call[c].idx - 1) : ord[k] \in call'[c].skips
        \* selection returns none only when every candidate was passed over
        /\ (call'[c].pc = "selRet" /\ call'[c].provider = ""
              /\ (PassStarts(c) \/ call[c].pc = "selAct"))
           => Range(ordNew) \subseteq call'[c].skips

\* C9: under round_robin, selectProvider examines the candidates by ascending
\* lastUsed (a never-used provider, lastUsed 0, first), ties in the order of
\* the configuration, and returns the first one whose breaker gate is not
\* open and whose limiter is not saturated, both as read when the candidate
\* is examined and lastUsed as read when the pass sorts.
C9_RoundRobinSelection ==
    [][\A c \in Clients :
          (cfg.strategy = "round_robin" /\ call'[c] # call[c]) => C9_Step(c)]_vars

\* A selection returned A, which ties with B on a non-zero lastUsed.
C9_Witness ==
    \E c \in Clients :
        /\ call[c].pc = "selRet"
        /\ call[c].provider = "A"
        /\ call[c].ordered = <<"A", "B">>
        /\ prov["A"].lastUsed = prov["B"].lastUsed
        /\ prov["A"].lastUsed > 0

\* ceil(a / b)
CeilDiv(a, b) == (a + b - 1) \div b

\* C10: under round_robin with N providers that all support the model and stay
\* admissible, in a sequence of consecutive successful execute calls each
\* provider is selected at most ceil(calls/N) times.
C10_RoundRobinEven ==
    (/\ cfg.strategy = "round_robin"
     /\ cfg.models = ModelsShared
     /\ ~hist.overlapped /\ ~hist.skipped
     /\ \A p \in Providers : hist.hfail[p] = 0)
    => \A p \in Range(cfg.provs) :
          hist.selCount[p] <= CeilDiv(hist.execs, Len(cfg.provs))

\* Twice the average of the two costs provider p declares for model m.
ModelCost(p, m) ==
    LET i == CHOOSE j \in 1..Len(cfg.models[p]) : cfg.models[p][j].name = m
    IN  cfg.models[p][i].costPer1kInputTokens + cfg.models[p][i].costPer1kOutputTokens

\* C11: under cost_priority_round_robin, of two candidates with the same
\* priority that both declare the requested model, the one with the lower
\* average cost for that model is ordered first, and is the one selected when
\* both are admissible.
C11_CheaperModelFirst ==
    \A c \in Clients :
        (cfg.strategy = "cost_priority_round_robin" /\ call[c].pc \in {"selAct", "selRet"})
        => LET ord == call[c].ordered
               m == call[c].model
           IN  /\ \A i, j \in 1..Len(ord) :
                     (/\ i < j
                      /\ cfg.priority[ord[i]] = cfg.priority[ord[j]])
                     => ModelCost(ord[i], m) <= ModelCost(ord[j], m)
               /\ \A q \in Range(ord) :
                     (/\ call[c].pc = "selRet" /\ call[c].provider # ""
                      /\ q \notin call[c].skips
                      /\ cfg.priority[q] = cfg.priority[call[c].provider])
                     => ModelCost(call[c].provider, m) <= ModelCost(q, m)

\* C12: under cost_priority_round_robin with two providers that share one
\* model and are never passed over, every execute call is routed to the
\* cheaper provider B, whatever calls preceded it: A is never selected and
\* A's handler is never invoked.
C12_AlwaysCheapest ==
    (/\ cfg.strategy = "cost_priority_round_robin"
     /\ cfg.models = ModelsCheapB
     /\ ~hist.skipped)
    => /\ hist.selCount["A"] = 0
       /\ hist.hok["A"] + hist.hfail["A"] = 0
       /\ \A c \in Clients :
             /\ "A" \notin call[c].used
             /\ (call[c].pc = "selRet" /\ call[c].pass = 2) => call[c].provider = "B"
             /\ (Done(c) /\ call[c].status = "ok") => call[c].resp = "B"

\* Three calls in a row went to B, one of them failing, under either priority
\* setting.
C12_Witness ==
    /\ cfg.strategy = "cost_priority_round_robin"
    /\ cfg.models = ModelsCheapB
    /\ ~hist.skipped
    /\ hist.selCount["B"] >= 3
    /\ hist.hfail["B"] >= 1 /\ hist.hok["B"] >= 2

\* The calls whose handler invocation on provider p is in flight.
Invoking(p) == {c \in Clients : call[c].pc = "executing" /\ call[c].provider = p}

InFlight(p) ==
    {c \in Clients : call[c].provider = p
                       /\ call[c].pc \in {"received", "queued", "executing"}}

\* C14: a candidate that comes under examination during selection while the
\* number of its calls in flight is at or above its maxConcurrent is found
\* rate limited (and is then skipped with rateLimitedRequests incremented).
C14_SkippedWhenSaturated ==
    [][\A c \in Clients :
          (call'[c] # call[c] /\ call'[c].pc = "selAct")
          => LET p == call'[c].ordered[call'[c].idx]
             IN  Cardinality(InFlight(p)) >= cfg.maxConcurrent[p] => ~call'[c].hasCap]_vars

\* C15: a provider's averageResponseTime changes only in a step that records
\* a successful call for it; a recorded failure or rate-limit skip leaves it
\* unchanged.
C15_AverageOnlyOnSuccess ==
    [][\A p \in Providers :
          prov'[p].averageResponseTime # prov[p].averageResponseTime
          => prov'[p].successfulRequests = prov[p].successfulRequests + 1]_vars

\* C16: each recorded outcome (one updateMetrics call, which is one increment
\* of totalRequests) increments exactly one of successfulRequests,
\* failedRequests and rateLimitedRequests by one and leaves the other two
\* unchanged.
C16_OneCounterPerOutcome ==
    [][\A p \in Providers :
          LET recorded == prov'[p].totalRequests - prov[p].totalRequests
              succeeded == prov'[p].successfulRequests - prov[p].successfulRequests
              failed == prov'[p].failedRequests - prov[p].failedRequests
              limited == prov'[p].rateLimitedRequests - prov[p].rateLimitedRequests
          IN  /\ recorded \in {0, 1}
              /\ {succeeded, failed, limited} \subseteq {0, 1}
              /\ succeeded + failed + limited = recorded]_vars

\* All three kinds of outcome are on record: a provider with a failure and a
\* rate-limit skip, and a provider with a success.
C16_Witness ==
    /\ \E p \in Providers :
          prov[p].failedRequests >= 1 /\ prov[p].rateLimitedRequests >= 1
    /\ \E p \in Providers : prov[p].successfulRequests >= 1

\* C17: a rate-limit skip leaves the skipped provider's totalRequests
\* unchanged, so totalRequests = successfulRequests + failedRequests holds for
\* every provider in every reachable state.
C17_TotalIsRouted ==
    \A p \in Providers :
        prov[p].totalRequests = prov[p].successfulRequests + prov[p].failedRequests

\* C18: within one execute call a provider is recorded as rate limited at
\* most once, also when selection falls back from the restricted pass to the
\* unrestricted pass, and a provider whose handler the call invokes is not
\* recorded as rate limited by that call.
C18_NoDoubleCount ==
    \A c \in Clients : \A p \in Providers :
        /\ call[c].limited[p] <= 1
        /\ p \in call[c].used => call[c].limited[p] = 0

\* C19: in every reachable state and for every provider, the circuit state is
\* one of closed, open, half-open, and circuitBreakerOpenedAt is set if and
\* only if the circuit state is open.
C19_OpenedAtIffOpen ==
    \A p \in Providers :
        /\ prov[p].circuitBreakerState \in {"closed", "open", "half-open"}
        /\ prov[p].circuitBreakerOpenedAt # Undefined
              <=> prov[p].circuitBreakerState = "open"

\* C20: for every provider, lastUsed never decreases, over any sequence and
\* interleaving of execute calls.
C20_LastUsedMonotone ==
    [][\A p \in Providers : prov'[p].lastUsed >= prov[p].lastUsed]_vars

\* A provider with two outcomes on record, the last one stamped after the
\* clock had advanced.
C20_Witness ==
    \E p \in Providers :
        /\ prov[p].totalRequests >= 2
        /\ prov[p].lastUsed >= 2


\* The preferred providers of c's call that support its model.
PreferredCandidates(c) ==
    {p \in Range(call[c].pref) : p \in Range(getProvidersForModel(call[c].model))}

\* C21: when a preferred provider that supports the model is admissible, the
\* provider invoked is a preferred one; selection is repeated over all the
\* candidates for the model only when the first pass examined every such
\* preferred provider and skipped it (breaker open or rate limited); preferred
\* names that do not support the model are ignored, so the provider invoked
\* always supports the model.
C21_PreferredFirst ==
    [][\A c \in Clients :
          call'[c] # call[c] =>
            /\ (call[c].pass = 1 /\ call'[c].pass = 2)
               => PreferredCandidates(c) \subseteq call[c].skips
            /\ (call'[c].provider # "" /\ call'[c].pass = 1)
               => call'[c].provider \in PreferredCandidates(c)'
            /\ call'[c].provider # ""
               => call'[c].provider \in Range(getProvidersForModel(call'[c].model))
            /\ call'[c].used \subseteq Range(getProvidersForModel(call'[c].model))
            /\ call'[c].hcalls > call[c].hcalls
               => /\ call[c].provider \in Range(getProvidersForModel(call[c].model))
                  /\ call[c].pass = 1 => call[c].provider \in PreferredCandidates(c)]_vars

\* C21 witness: a call that named B as preferred provider found B's circuit
\* open and had A's handler invoked instead.
C21_Witness ==
    \E c \in Clients :
        /\ call[c].pref = <<"B">> /\ call[c].model = "m1"
        /\ PreferredCandidates(c) = {"B"}
        /\ call[c].pass = 2
        /\ call[c].provider = "A" /\ call[c].used = {"A"}
        /\ Done(c)


\* Provider p declares `model` among its models.
Declares(p, model) ==
    \E i \in 1..Len(cfg.models[p]) : cfg.models[p][i].name = model

\* The model of c's request: request.model, else defaultModel.
Resolved(c) == IF call[c].reqModel # "" THEN call[c].reqModel ELSE cfg.defaultModel

\* C22: execute never invokes the handler of a provider that is disabled or
\* that does not declare the resolved model (request.model, else
\* defaultModel): not when the provider is named as preferred, and not when
\* every supporting provider is breaker-open or rate-saturated.
C22_OnlySupportingInvoked ==
    /\ \A c \in Clients :
          \A p \in call[c].used \cup
                   (IF call[c].pc \in {"received", "queued", "executing", "backoff"}
                    THEN {call[c].provider} ELSE {}) :
              cfg.enabled[p] /\ Declares(p, Resolved(c))
    /\ \A p \in Providers :
          ~cfg.enabled[p] => hist.hok[p] + hist.hfail[p] + hist.selCount[p] = 0

\* C22 witness: a call whose only preferred provider is disabled or does not
\* declare the model found every supporting provider's circuit open: it
\* failed without an invocation.
C22_Witness ==
    \E c \in Clients :
        /\ Done(c) /\ call[c].pref # <<>>
        /\ \A p \in Range(call[c].pref) : ~cfg.enabled[p] \/ ~Declares(p, Resolved(c))
        /\ call[c].err = "NoAvailable"
        /\ call[c].used = {} /\ call[c].hcalls = 0
        /\ \E d \in Providers : ~cfg.enabled[d]


\* Client c enters execute in this step.
Enters(c) == hist'.execs = hist.execs + 1 /\ call'[c] # call[c]

\* C23: execute fails with the 'no model specified' error when neither
\* request.model nor defaultModel is set, and with the 'no providers available
\* for model' error when no enabled provider declares the model; these calls
\* end at once, invoke no handler and leave every provider record, the
\* limiters and the policy as they were, so that the router serves the next
\* call as if they had not been made; no other call ends in these errors.
C23_FailFastLeavesNoTrace ==
    [][\A c \in Clients :
          Enters(c) =>
            LET model == Resolved(c)'
                unroutable == model = "" \/ ~\E p \in Providers :
                                                cfg.enabled[p] /\ Declares(p, model)
            IN  /\ unroutable <=> call'[c].err \in {"NoModel", "NoProvidersForModel"}
                /\ model = "" <=> call'[c].err = "NoModel"
                /\ unroutable
                   => /\ call'[c].pc = "done" /\ call'[c].status = "err"
                      /\ call'[c].hcalls = 0 /\ call'[c].provider = ""
                      /\ hist'.invokes = hist.invokes
                      /\ hist'.rejected = hist.rejected + 1
                      /\ UNCHANGED <<prov, queue, nextRequest, policy>>]_vars

\* C23 witness: a router whose first call was rejected for want of a model or
\* of a provider for the model served its second call.
C23_Witness ==
    \E c \in Clients :
        /\ cfg.clients = {c}
        /\ hist.execs = 2 /\ hist.rejected = 1 /\ hist.invokes = 1
        /\ \A p \in Providers : hist.hfail[p] = 0
        /\ Done(c) /\ call[c].status = "ok" /\ call[c].resp = "A"
        /\ prov["A"].totalRequests = 1 /\ prov["A"].successfulRequests = 1
        /\ \E p \in Providers : ~cfg.enabled[p]


\* C24: with retry disabled (or no resilience section at all), a
\* ResilientRouter.execute call that selects a provider invokes its handler
\* exactly once; if the invocation fails the call rejects with the handler's
\* error without any backoff or second round; with nothing configured the
\* policy is a pass-through that keeps no state.
C24_SingleAttemptWithoutRetry ==
    (Resilient /\ ~cfg.retry.enabled)
    => /\ \A c \in Clients :
            /\ call[c].hcalls <= 1 /\ call[c].rounds <= 1
            /\ call[c].pc \notin {"backoff", "polBackoff"}
            /\ (Done(c) /\ call[c].provider # ""
                        /\ Integration(call[c].provider) = "handler")
               => /\ call[c].hcalls = 1 /\ call[c].retries = 0
                  /\ call[c].used = {call[c].provider}
                  /\ call[c].hfail = 1
                     => /\ call[c].status = "err" /\ call[c].err = "HandlerError"
                        /\ call[c].errInv = 1
                  /\ call[c].hfail = 0
                     => call[c].status = "ok" /\ call[c].resp = call[c].provider
       /\ ~cfg.circuitBreaker.enabled => policy = NewPolicy

\* C24 witness: without a resilience section, a call rejected with the error
\* of the single invocation of its provider's handler.
C24_Witness ==
    \E c \in Clients :
        /\ Resilient /\ ~cfg.retry.enabled /\ ~cfg.circuitBreaker.enabled
        /\ Done(c) /\ call[c].provider # ""
        /\ call[c].hcalls = 1 /\ call[c].hfail = 1
        /\ call[c].err = "HandlerError"


\* C25: every ResilientRouter.execute call that selects a provider invokes
\* that provider's handler at least once, whatever the retry configuration
\* (attempts = 0 included), and ends with the handler's response or with an
\* error: it never resolves without a response.
C25_AtLeastOneAttempt ==
    \A c \in Clients :
        (/\ Resilient /\ Done(c)
         /\ call[c].provider # ""
         /\ Integration(call[c].provider) = "handler")
        => /\ call[c].hcalls >= 1
           /\ call[c].status \in {"ok", "err"}
           /\ call[c].status = "ok" => call[c].resp = call[c].provider
           /\ call[c].status = "err" => call[c].err # ""


\* Provider p's entry in the configuration has no custom handler and a type
\* other than openai and ollama.
NoIntegrationFor(p) == ~cfg.handler[p] /\ cfg.type[p] \notin {"openai", "ollama"}

\* C26: the scheduled function calls the selected provider's custom handler
\* when the provider has one; otherwise a provider of type openai or ollama is
\* served by the built-in integration, and any other type fails with the
\* 'No integration' error without calling anything; in LLMRouter that error,
\* like a handler's error, is recorded as exactly one failed call of the
\* provider (one breaker update, failedRequests and totalRequests up by one)
\* and is the error the call rejects with.
C26_Dispatch ==
    [][\A c \in Clients :
          (call[c].pc = "executing" /\ call'[c].pc # "executing") =>
            LET p == call[c].provider
                failed == call'[c].status = "err"
            IN  /\ cfg.handler[p] <=> call[c].invoked = "handler"
                /\ (~cfg.handler[p] /\ cfg.type[p] \in {"openai", "ollama"})
                   <=> call[c].invoked = "builtin"
                /\ call[c].invoked = "builtin"
                   => call'[c].status = "ok" /\ call'[c].resp = p
                /\ NoIntegrationFor(p)
                   => /\ call[c].hcalls = 0 /\ call[c].used = {}
                      /\ cfg.flavor = "LLMRouter"
                         => failed /\ call'[c].err = "NoIntegration"
                /\ (failed /\ ~NoIntegrationFor(p)) => call'[c].err = "HandlerError"
                /\ (cfg.flavor = "LLMRouter" /\ failed)
                   => /\ call'[c].pc = "done"
                      /\ call'[c].cbUpd = 1 /\ call'[c].metUpd = 1
                      /\ prov'[p].failedRequests = prov[p].failedRequests + 1
                      /\ prov'[p].totalRequests = prov[p].totalRequests + 1
                      /\ prov'[p].successfulRequests = prov[p].successfulRequests
                      /\ prov'[p].failureCount = prov[p].failureCount
                            + (IF cfg.circuitBreaker.enabled THEN 1 ELSE 0)
                      /\ \A q \in Providers \ {p} : prov'[q] = prov[q]]_vars

\* C26 witness: in LLMRouter a call routed to a provider without handler and
\* without built-in integration was rejected with the 'No integration' error,
\* on record as the provider's one failed request, which tripped its breaker.
C26_Witness ==
    \E c \in Clients :
        /\ cfg.flavor = "LLMRouter" /\ cfg.circuitBreaker.enabled
        /\ Done(c) /\ call[c].err = "NoIntegration"
        /\ NoIntegrationFor(call[c].provider)
        /\ prov[call[c].provider].failedRequests = 1
        /\ prov[call[c].provider].failureCount = 1
        /\ prov[call[c].provider].circuitBreakerState = "open"
        /\ hist.execs = 1


\* C27: the policy with retry enabled (attempts = n) and no circuit breaker
\* runs a function that fails every time exactly n+1 times, the first
\* execution and n retries, and then rejects with the function's error.
C27_PolicyRunsNPlusOne ==
    \A c \in Clients :
        (Resilient /\ cfg.retry.enabled /\ ~cfg.circuitBreaker.enabled)
        => /\ call[c].rounds <= cfg.retry.attempts + 1
           /\ call[c].retries <= cfg.retry.attempts
           /\ (Done(c) /\ call[c].status = "err" /\ call[c].rounds >= 1)
              => /\ call[c].rounds = cfg.retry.attempts + 1
                 /\ call[c].retries = cfg.retry.attempts
                 /\ call[c].err \in {"HandlerError", "NoAvailable"}
           /\ policy = NewPolicy

\* C27 witness: with attempts = 2 the policy ran the failing function three
\* times and rejected with its error.
C27_Witness ==
    \E c \in Clients :
        /\ Resilient /\ cfg.retry.enabled /\ ~cfg.circuitBreaker.enabled
        /\ cfg.retry.attempts = 2
        /\ Done(c) /\ call[c].status = "err" /\ call[c].err = "HandlerError"
        /\ call[c].rounds = 3


\* C28: the policy with only the circuit breaker enabled (threshold t): once
\* t executions in a row have failed the breaker has left the closed state,
\* and an execution issued while it is open and resetTimeoutMs has not passed
\* rejects with the circuit-broken error without running the function: no
\* selection, no invocation, nothing recorded.
C28_PolicyBreakerOpens ==
    [][(Resilient /\ cfg.circuitBreaker.enabled /\ ~cfg.retry.enabled)
       => /\ policy'.count >= cfg.circuitBreaker.threshold => policy'.state # "closed"
          /\ \A c \in Clients :
                (/\ Enters(c) /\ call'[c].err \notin {"NoModel", "NoProvidersForModel"}
                 /\ policy.state = "open"
                 /\ clock - policy.openedAt < cfg.circuitBreaker.resetTimeoutMs)
                => /\ call'[c].pc = "polResult" /\ call'[c].status = "err"
                   /\ call'[c].err = "BrokenCircuit"
                   /\ call'[c].rounds = 0 /\ call'[c].hcalls = 0
                   /\ ~call'[c].ran
                   /\ hist'.invokes = hist.invokes
                   /\ UNCHANGED <<prov, queue, policy>>]_vars

\* C28 witness: with threshold 2, two failed calls and then a third call
\* rejected with the circuit-broken error, the function having run twice.
C28_Witness ==
    \E c \in Clients :
        /\ Resilient /\ cfg.circuitBreaker.enabled /\ ~cfg.retry.enabled
        /\ cfg.circuitBreaker.threshold = 2
        /\ hist.execs = 3 /\ hist.invokes = 2 /\ hist.rejected = 3
        /\ policy.state = "open" /\ policy.count = 2
        /\ Done(c) /\ call[c].err = "BrokenCircuit" /\ call[c].rounds = 0


\* C29: however concurrent LLMRouter.execute calls routed to one provider
\* interleave, no counter update is lost: the provider's successfulRequests
\* and failedRequests are the numbers of calls that have succeeded and failed
\* on it, and with the breaker enabled failureCount is the number of failed
\* calls; in particular once all calls have completed.
C29_NoLostUpdate ==
    cfg.flavor = "LLMRouter"
    => \A p \in Providers :
          /\ prov[p].successfulRequests = hist.hok[p]
          /\ prov[p].failedRequests = hist.hfail[p]
          /\ cfg.circuitBreaker.enabled
             => /\ prov[p].failureCount = hist.hfail[p]
                /\ prov[p].successCount = hist.hok[p]
          /\ prov[p].totalRequests
                = hist.hok[p] + hist.hfail[p] + prov[p].rateLimitedRequests

\* C29 witness: two overlapping calls on A have both failed, and A counts two
\* failures.
C29_Witness ==
    /\ cfg.flavor = "LLMRouter" /\ cfg.circuitBreaker.enabled
    /\ hist.overlapped /\ hist.execs = 2
    /\ \A c \in Clients : Done(c) /\ call[c].provider = "A" /\ call[c].status = "err"
    /\ prov["A"].failedRequests = 2 /\ prov["A"].failureCount = 2
    /\ hist.hfail["A"] = 2


\* Provider p is open and resetTimeoutMs has not passed since it was opened.
StillOpen(p) ==
    /\ cfg.circuitBreaker.enabled
    /\ prov[p].circuitBreakerState = "open"
    /\ clock - (IF prov[p].circuitBreakerOpenedAt = Undefined THEN 0
                ELSE prov[p].circuitBreakerOpenedAt) < cfg.circuitBreaker.resetTimeoutMs

\* The candidates c's selection put to the breaker gate and skipped in this step.
GateSkipped(c) ==
    LET from == IF call[c].pc = "selAct" THEN call[c].idx + 1 ELSE 1
    IN  IF call'[c].pc \in {"selAct", "selRet"} /\ call'[c].idx > 0
        THEN {call'[c].ordered[k] : k \in from..(call'[c].idx - 1)}
        ELSE {}

\* C30: the breaker gate reports not-open when the breaker is disabled or the
\* provider is closed or half-open; it reports an open provider open while
\* now - circuitBreakerOpenedAt < resetTimeoutMs, and otherwise makes it
\* half-open and reports not-open; it changes nothing of the provider but the
\* circuit state, and nothing of another provider.
C30_BreakerGate ==
    [][/\ \A c \in Clients :
            call'[c] # call[c] =>
              /\ \A s \in GateSkipped(c) : StillOpen(s) /\ prov'[s] = prov[s]
              /\ call'[c].pc = "selAct"
                 => LET q == call'[c].ordered[call'[c].idx] IN
                    /\ ~StillOpen(q)
                    /\ prov'[q] = [prov[q] EXCEPT !.circuitBreakerState =
                                      IF cfg.circuitBreaker.enabled /\ @ = "open"
                                      THEN "half-open" ELSE @]
       /\ \A p \in Providers :
            (prov'[p].circuitBreakerState = "half-open"
             /\ prov[p].circuitBreakerState # "half-open")
            => /\ prov[p].circuitBreakerState = "open" /\ ~StillOpen(p)
               /\ \E c \in Clients :
                     /\ call'[c] # call[c] /\ call'[c].pc = "selAct"
                     /\ call'[c].ordered[call'[c].idx] = p]_vars

\* C30 witness: a selection found the open provider past its reset timeout,
\* made it half-open and took it as the candidate, having left a provider
\* that is still open aside.
C30_Witness ==
    \E c \in Clients :
        /\ call[c].pc = "selAct"
        /\ LET q == call[c].ordered[call[c].idx] IN
           /\ prov[q].circuitBreakerState = "half-open"
           /\ prov[q].circuitBreakerOpenedAt # Undefined
           /\ clock - prov[q].circuitBreakerOpenedAt >= cfg.circuitBreaker.resetTimeoutMs
        /\ \E s \in call[c].skips : StillOpen(s)


\* C31: with the breaker enabled, a provider goes from closed to open exactly
\* in a step that records a failure in state closed and brings the cumulative
\* failureCount, which successes never lower, to the threshold or above;
\* circuitBreakerTrips goes up by one in each such step and in no other, and a
\* failure recorded while open neither trips again nor re-stamps
\* circuitBreakerOpenedAt.
C31_TripExactlyAtThreshold ==
    [][cfg.circuitBreaker.enabled =>
       \A p \in Providers :
          LET w == prov[p]
              n == prov'[p]
              failure == n.failureCount > w.failureCount
              trip == /\ w.circuitBreakerState = "closed" /\ failure
                      /\ n.failureCount >= cfg.circuitBreaker.threshold
          IN  /\ n.failureCount \in {w.failureCount, w.failureCount + 1}
              /\ (w.circuitBreakerState = "closed" /\ n.circuitBreakerState = "open")
                 <=> trip
              /\ n.circuitBreakerState = "open" /\ w.circuitBreakerState # "open"
                 => trip
              /\ n.circuitBreakerTrips = w.circuitBreakerTrips + (IF trip THEN 1 ELSE 0)
              /\ trip => n.circuitBreakerOpenedAt = clock
              /\ ~trip => n.circuitBreakerOpenedAt = w.circuitBreakerOpenedAt
              /\ (w.circuitBreakerState = "open" /\ failure)
                 => n.circuitBreakerState = "open"]_vars

\* C31 witness: a second failure was recorded on a provider that was already
\* open, at a later time than the trip; it counts one trip, stamped then.
C31_Witness ==
    \E p \in Providers :
        /\ cfg.circuitBreaker.enabled /\ cfg.circuitBreaker.threshold = 1
        /\ prov[p].circuitBreakerState = "open"
        /\ prov[p].failureCount = 2 /\ prov[p].successCount = 0
        /\ prov[p].circuitBreakerTrips = 1
        /\ prov[p].circuitBreakerOpenedAt < prov[p].lastRequestTime


\* C32: a success recorded while half-open closes the circuit, and one
\* recorded while closed or open leaves the state as it is; no step resets or
\* lowers successCount or failureCount; with the breaker disabled an outcome
\* changes neither counter nor the state.
C32_SuccessClosesOnlyHalfOpen ==
    [][\A p \in Providers :
          LET w == prov[p]
              n == prov'[p]
              succeeded == hist'.hok[p] > hist.hok[p]
          IN  /\ n.successCount >= w.successCount
              /\ n.failureCount >= w.failureCount
              /\ ~cfg.circuitBreaker.enabled
                 => /\ n.successCount = 0 /\ n.failureCount = 0
                    /\ n.circuitBreakerState = "closed"
                    /\ n.circuitBreakerTrips = 0
                    /\ n.circuitBreakerOpenedAt = Undefined
              /\ (cfg.circuitBreaker.enabled /\ succeeded)
                 => /\ n.successCount = w.successCount + 1
                    /\ n.failureCount = w.failureCount
                    /\ n.circuitBreakerState =
                          IF w.circuitBreakerState = "half-open" THEN "closed"
                          ELSE w.circuitBreakerState
              /\ (w.circuitBreakerState = "half-open" /\ n.circuitBreakerState = "closed")
                 => succeeded
              /\ n.successCount > w.successCount => succeeded]_vars

\* C32 witness: a call that was in flight when the provider tripped succeeded
\* afterwards, and the provider is still open.
C32_Witness ==
    \E p \in Providers :
        /\ cfg.circuitBreaker.enabled
        /\ prov[p].circuitBreakerState = "open" /\ prov[p].circuitBreakerTrips = 1
        /\ prov[p].successCount = 1 /\ prov[p].failureCount = 1
        /\ prov[p].rateLimitedRequests = 0 /\ prov[p].totalRequests = 2
        /\ prov[p].circuitBreakerOpenedAt < prov[p].lastRequestTime


\* The calls routed to p through a gate that found p open past its timeout or
\* half-open, and not completed yet.
Trials(p) ==
    {c \in Clients : /\ call[c].provider = p
                     /\ call[c].pc \in {"selRet", "received", "queued", "executing"}
                     /\ call[c].gateState \in {"open", "half-open"}}

\* C33: half-open admits a single trial: once the reset timeout of an open
\* breaker has elapsed, at most one call is routed to the provider until that
\* call completes; the gate checks of other concurrent calls skip the
\* half-open provider.
C33_SingleTrial ==
    \A p \in Providers :
        cfg.circuitBreaker.enabled => Cardinality(Trials(p)) <= 1


\* C34: the circuit state changes only from closed to open (a failure that
\* brings failureCount to the threshold), from open to half-open (a gate check
\* once resetTimeoutMs has passed) and from half-open to closed (a success);
\* a failure recorded while half-open adds to failureCount and leaves the
\* state half-open, and the gate never skips a half-open provider: after a
\* failed trial it is admitted by every later selection.
C34_Transitions ==
    [][cfg.circuitBreaker.enabled =>
       /\ \A p \in Providers :
            LET w == prov[p]
                n == prov'[p]
                failure == n.failureCount > w.failureCount
                success == hist'.hok[p] > hist.hok[p]
                move == <<w.circuitBreakerState, n.circuitBreakerState>>
            IN  /\ move[1] # move[2]
                   => \/ /\ move = <<"closed", "open">> /\ failure
                         /\ n.failureCount >= cfg.circuitBreaker.threshold
                      \/ move = <<"open", "half-open">> /\ ~StillOpen(p)
                      \/ move = <<"half-open", "closed">> /\ success
                /\ (w.circuitBreakerState = "half-open" /\ failure)
                   => /\ n.failureCount = w.failureCount + 1
                      /\ n.circuitBreakerState = "half-open"
                      /\ n.circuitBreakerTrips = w.circuitBreakerTrips
       /\ \A c \in Clients :
            call'[c] # call[c] =>
              \A s \in GateSkipped(c) : prov[s].circuitBreakerState = "open"]_vars

\* C34 witness: after the trip and a failed half-open trial, the next call of
\* the same client was admitted to the provider, which is still half-open.
C34_Witness ==
    \E c \in Clients, p \in Providers :
        /\ cfg.circuitBreaker.enabled /\ cfg.clients = {c} /\ cfg.flavor = "LLMRouter"
        /\ prov[p].circuitBreakerState = "half-open"
        /\ prov[p].failureCount = 2 /\ prov[p].successCount = 0
        /\ prov[p].circuitBreakerTrips = 1
        /\ cfg.circuitBreaker.threshold = 1
        /\ call[c].pc = "executing" /\ call[c].provider = p
        /\ call[c].gateState = "half-open"


\* Client c is inside selectProvider after this step, or returns from it.
Selecting(c) == call'[c] # call[c] /\ call'[c].pc \in {"selAct", "selRet"}

C36_BaseBreakerCycle ==
    [][\A c \in Clients :
          (/\ cfg.flavor = "LLMRouter" /\ SingleProvider /\ cfg.clients = {c}
           /\ cfg.circuitBreaker.enabled
           /\ hist'.hok[cfg.provs[1]] = 0
           /\ call'[c] # call[c])
          => LET a == cfg.provs[1]
                 t == cfg.circuitBreaker.threshold
                 n == call'[c]
             IN  /\ (call[c].pass = 1 /\ n.pass = 2)
                    => IF StillOpen(a)
                       THEN n.pc = "selRet" /\ n.provider = "" /\ n.skips = {a}
                       ELSE n.pc = "selAct" /\ n.ordered[n.idx] = a
                 /\ (n.pc = "done" /\ call[c].pc = "executing")
                    => /\ n.hcalls = 1 /\ n.status = "err" /\ n.err = "HandlerError"
                       /\ prov'[a].failureCount = prov[a].failureCount + 1
                       /\ prov'[a].failedRequests = prov[a].failedRequests + 1
                       /\ prov'[a].failureCount = t
                          => prov'[a].circuitBreakerState = "open"
                 /\ (n.pc = "done" /\ call[c].pc # "executing")
                    => /\ n.hcalls = 0 /\ n.status = "err" /\ n.err = "NoAvailable"
                       /\ n.skips = {a}
                       /\ prov' = prov /\ hist'.invokes = hist.invokes
                 /\ (n.pc = "done" /\ hist'.execs <= t)
                    => /\ n.hcalls = 1
                       /\ prov'[a].failureCount = hist'.execs
                       /\ prov'[a].failedRequests = hist'.execs
                 /\ prov'[a].failureCount >= t
                    => prov'[a].circuitBreakerState # "closed"]_vars

\* C36 witness: with threshold 2, two failed calls opened the circuit, a third
\* call was turned away without an invocation, and after the reset timeout a
\* fourth call invoked the handler again.
C36_Witness ==
    \E c \in Clients :
        /\ cfg.flavor = "LLMRouter" /\ SingleProvider /\ cfg.clients = {c}
        /\ cfg.circuitBreaker.enabled /\ cfg.circuitBreaker.threshold = 2
        /\ hist.execs = 4 /\ hist.invokes = 3 /\ hist.rejected = 4
        /\ prov[cfg.provs[1]].failureCount = 3
        /\ prov[cfg.provs[1]].circuitBreakerState = "half-open"
        /\ Done(c) /\ call[c].err = "HandlerError" /\ call[c].gateState = "open"


\* The requests of provider w split into successes, failures and rate-limit
\* skips.
TotalSplits(w) ==
    w.totalRequests = w.successfulRequests + w.failedRequests + w.rateLimitedRequests

\* C37: in every reachable state and for every provider, totalRequests =
\* successfulRequests + failedRequests + rateLimitedRequests, and no counter
\* of the metrics block ever decreases.
C37_MetricsAddUp ==
    [][\A p \in Providers :
          /\ TotalSplits(prov[p]) /\ TotalSplits(prov'[p])
          /\ prov'[p].totalRequests >= prov[p].totalRequests
          /\ prov'[p].successfulRequests >= prov[p].successfulRequests
          /\ prov'[p].failedRequests >= prov[p].failedRequests
          /\ prov'[p].rateLimitedRequests >= prov[p].rateLimitedRequests
          /\ prov'[p].circuitBreakerTrips >= prov[p].circuitBreakerTrips
          /\ prov'[p].lastRequestTime >= prov[p].lastRequestTime]_vars

\* C37 witness: a provider with one success and one rate-limit skip on record.
C37_Witness ==
    \E p \in Providers :
        /\ prov[p].successfulRequests = 1
        /\ prov[p].rateLimitedRequests = 1
        /\ prov[p].failedRequests = 0
        /\ prov[p].totalRequests = 2


\* Call c has been routed and its invocation has not completed.
Routed(c) == call[c].pc \in {"received", "queued", "executing"}

\* Two different calls, both routed, that chose among the same candidates
\* under round_robin and found no gate closed: neither skipped a candidate in
\* its final pass, neither was turned away by a rate limit in any pass.
SelectedSideBySide(c, d) ==
    /\ c # d /\ Routed(c) /\ Routed(d)
    /\ cfg.strategy = "round_robin"
    /\ call[c].avail = call[d].avail /\ call[c].pass = call[d].pass
    /\ Range(call[c].ordered) = Range(call[d].ordered)
    /\ call[c].skips = {} /\ call[d].skips = {}
    /\ \A p \in Providers : call[c].limited[p] = 0 /\ call[d].limited[p] = 0

\* C38 as stated: lastUsed is written only when an outcome is recorded, never
\* by selecting; and two execute calls that both run selection before either
\* invocation completes, under round_robin with no gate closed, select the
\* same provider.
C38_SameChoiceWhileInFlight ==
    \A c, d \in Clients :
        SelectedSideBySide(c, d) => call[c].provider = call[d].provider

\* C38 as amended: lastUsed is written only in a step that records an outcome
\* for the provider (its totalRequests goes up by one, lastUsed becomes the
\* time of the record), never in the step that selects it; so two calls that
\* both run selection before either invocation completes, with no outcome of
\* any other call recorded between the two selections, see the same ordering
\* and, under round_robin with no gate closed, select the same provider.
C38_LastUsedOnlyOnRecord ==
    [][/\ \A p \in Providers :
            prov'[p].lastUsed # prov[p].lastUsed
            => /\ prov'[p].totalRequests = prov[p].totalRequests + 1
               /\ prov'[p].lastUsed = clock
       /\ \A c \in Clients :
            (call[c].pc = "selAct" /\ call'[c].provider # "" /\ call'[c].pc = "selRet")
            => prov' = prov
       /\ \A c, d \in Clients :
            (SelectedSideBySide(c, d)' /\ call'[c].seen = call'[d].seen)
            => /\ call'[c].ordered = call'[d].ordered
               /\ call'[c].provider = call'[d].provider]_vars

\* C38 witness: two calls chose between A and B while neither had completed
\* and nothing was recorded in between; both were routed to the same provider.
C38_Witness ==
    \E c, d \in Clients :
        /\ SelectedSideBySide(c, d) /\ call[c].seen = call[d].seen
        /\ Len(call[c].ordered) = 2
        /\ call[c].provider = call[d].provider
        /\ call[c].pc = "executing" /\ call[d].pc = "executing"


\* ResilientRouter whose executeWithRateLimit loop runs at least once.
LoopRuns == Resilient /\ maxRetries >= 1

\* This step is a failed attempt of call c's invocation.
AttemptFails(c) ==
    call[c].pc = "executing" /\ call'[c].hfail = call[c].hfail + 1

\* No provider has a failure on its record.
NoFailureOnRecord ==
    \A p \in Providers :
        /\ prov[p].failureCount = 0 /\ prov[p].failedRequests = 0
        /\ prov[p].circuitBreakerTrips = 0
        /\ prov[p].circuitBreakerState = "closed"

\* Call c started right after an invocation failed on a provider, and has
\* chosen under round_robin among the candidates the failed call chose from.
FollowsFailure(c) ==
    /\ call[c].after.provider # ""
    /\ cfg.strategy = "round_robin"
    /\ Routed(c)
    /\ Range(call[c].ordered) = call[c].after.cands

C40_OneFailureReopens ==
    [][\A p \in Providers :
          /\ prov'[p].failureCount >= prov[p].failureCount
          /\ prov[p].circuitBreakerTrips >= 1 => prov[p].failureCount >= cfg.circuitBreaker.threshold
          /\ (/\ prov[p].circuitBreakerTrips >= 1
              /\ prov[p].circuitBreakerState = "closed"
              /\ prov'[p].failureCount = prov[p].failureCount + 1)
             => /\ prov'[p].circuitBreakerState = "open"
                /\ prov'[p].circuitBreakerOpenedAt = clock
                /\ prov'[p].circuitBreakerTrips = prov[p].circuitBreakerTrips + 1]_vars

\* C40 witness: with threshold 2, A tripped after two failures, closed again
\* after a successful trial, and its third failure, the first since closing,
\* opened it a second time.
C40_Witness ==
    /\ cfg.circuitBreaker.enabled /\ cfg.circuitBreaker.threshold = 2
    /\ prov["A"].failureCount = 3 /\ prov["A"].successCount >= 1
    /\ prov["A"].circuitBreakerTrips = 2
    /\ prov["A"].circuitBreakerState = "open"

====
